---- MODULE Spec2Model ----
(***************************************************************************)
(* A model of the segflow engine: the relational store (users, events,     *)
(* segments, campaigns, memberships, executions, execution history), the   *)
(* ingress services that write it, and the execution daemon's tick         *)
(* (runExecutions / processExecution).                                     *)
(*                                                                         *)
(* db is the committed database.  Ingress services are single             *)
(* transactions (or, for createCampaign, a run of autocommitted            *)
(* statements) and are modelled as one step each.  A tick is a             *)
(* transaction of several steps working on a private copy (tick[t].work)   *)
(* that replaces db at COMMIT and is discarded at ROLLBACK; the emails it  *)
(* hands to the provider (sent) are outside the database and stay sent.    *)
(* createUser is also modelled in two steps (inflight), its statements and *)
(* its COMMIT, for the requests that run in between.                       *)
(***************************************************************************)
EXTENDS Integers, Sequences, FiniteSets, TLC

VARIABLES
    db,      \* the committed database
    sent,    \* the emails handed to the email provider, in order
    clock,   \* the wall clock (new Date()), in seconds
    tick,    \* the tick transaction of each execution daemon
    requests, \* how many ingress requests were served
    push,    \* the latest config push: its request and its response
    inflight \* the createUser transaction that has not committed yet

vars == <<db, sent, clock, tick, requests, push, inflight>>

-----------------------------------------------------------------------------
(* Bounds of the model *)

\* the clock runs from 0 to MaxClock
MaxClock == 1
\* at most MaxSent emails are handed to the provider
MaxSent == 2
\* at most MaxEvents events are ingested
MaxEvents == 1
\* at most MaxRequests ingress requests are served
MaxRequests == 4

UserIds == {"u1"}
EventNames == {"purchase"}
TickIds == {"t1", "t2"}

-----------------------------------------------------------------------------
(* Small helpers for tables kept as functions with a finite domain *)

Put(f, k, v) ==
    [x \in (DOMAIN f) \cup {k} |-> IF x = k THEN v ELSE f[x]]

Drop(f, ks) ==
    [x \in (DOMAIN f) \ ks |-> f[x]]

EmptyTable == [x \in {} |-> 0]

-----------------------------------------------------------------------------
(* Segment evaluators.  An evaluator is SQL text; the model keeps the part *)
(* of its parse tree the engine depends on: the joined tables and the      *)
(* WHERE expression; parses tells whether the SQL parser of the trigger    *)
(* extraction has a rule for the text, which MySQL runs in any case.       *)

ColumnRef(t, c) == [type |-> "column_ref", table |-> t, column |-> c]
StringLit(v) == [type |-> "single_quote_string", value |-> v]
BoolLit(v) == [type |-> "bool", value |-> v]
JsonPath(p) == [type |-> "json_path", table |-> "users", column |-> "attributes", path |-> p]
BinaryExpr(o, l, r) == [type |-> "binary_expr", operator |-> o, left |-> l, right |-> r]
NoExpr == [type |-> "null"]

\* SELECT id FROM users
SqlAll ==
    [join |-> FALSE, where |-> NoExpr, parses |-> TRUE]
\* SELECT id FROM users WHERE attributes->'$.active' = true
SqlActive ==
    [join |-> FALSE, where |-> BinaryExpr("=", JsonPath("active"), BoolLit(TRUE)),
     parses |-> TRUE]
\* SELECT users.id FROM users INNER JOIN events ON events.user_id = users.id
\*   WHERE events.name = 'purchase' GROUP BY users.id
SqlPurchased ==
    [join |-> TRUE, where |-> BinaryExpr("=", ColumnRef("events", "name"), StringLit("purchase")),
     parses |-> TRUE]
\* SELECT users.id FROM users INNER JOIN events ON events.user_id = users.id
\*   GROUP BY users.id
SqlAnyEvent ==
    [join |-> TRUE, where |-> NoExpr, parses |-> TRUE]
\* a SELECT of the ids of all users in a syntax of MySQL that the parser rejects
SqlUnparsed ==
    [join |-> FALSE, where |-> NoExpr, parses |-> FALSE]

IsStringNode(n) ==
    n.type \in {"single_quote_string", "string"}

IsEventsName(n) ==
    n.type = "column_ref" /\ n.table = "events" /\ n.column = "name"

RECURSIVE traverseAST(_)
traverseAST(node) ==
    IF node.type # "binary_expr" THEN {}
    ELSE
      LET inHit == IF node.operator = "IN" /\ IsEventsName(node.left)
                      /\ node.right.type = "expr_list"
                   THEN {node.right.value[i].value :
                           i \in {j \in DOMAIN node.right.value :
                                    IsStringNode(node.right.value[j])}}
                   ELSE {}
          eqL == IF node.operator \in {"=", "=="} /\ IsEventsName(node.left)
                    /\ IsStringNode(node.right)
                 THEN {node.right.value} ELSE {}
          eqR == IF node.operator \in {"=", "=="} /\ IsEventsName(node.right)
                    /\ IsStringNode(node.left)
                 THEN {node.left.value} ELSE {}
      IN  inHit \cup eqL \cup eqR
            \cup traverseAST(node.left)
            \cup (IF node.right.type = "expr_list" THEN {} ELSE traverseAST(node.right))

\* parser.astify throws on a text it cannot parse, and nothing catches it
astifyThrows(sql) == ~sql.parses

extractEventTriggersFromSQL(sql) ==
    traverseAST(sql.where)

\* the value of an operand of a comparison on one row of the FROM clause
OperandValue(n, row) ==
    CASE n.type = "column_ref" -> row.eventName
      [] n.type = "json_path" -> row.attributes[n.path]
      [] OTHER -> n.value

RECURSIVE WhereHolds(_, _)
WhereHolds(node, row) ==
    CASE node.type = "null" -> TRUE
      [] node.type = "binary_expr" /\ node.operator = "AND" ->
           WhereHolds(node.left, row) /\ WhereHolds(node.right, row)
      [] node.type = "binary_expr" /\ node.operator = "OR" ->
           WhereHolds(node.left, row) \/ WhereHolds(node.right, row)
      [] node.type = "binary_expr" /\ node.operator = "IN" ->
           \E i \in DOMAIN node.right.value :
              OperandValue(node.left, row) = node.right.value[i].value
      [] OTHER -> OperandValue(node.left, row) = OperandValue(node.right, row)

\* the id column of the evaluator's result set over the users and events of d
RunEvaluator(d, sql) ==
    {u \in DOMAIN d.users :
        IF sql.join
        THEN \E e \in d.events :
                /\ e.userId = u
                /\ WhereHolds(sql.where,
                      [attributes |-> d.users[u].attributes, eventName |-> e.name])
        ELSE WhereHolds(sql.where,
                [attributes |-> d.users[u].attributes, eventName |-> "null"])}

-----------------------------------------------------------------------------
(* Flows.  A campaign's flow is the source text of a generator function;   *)
(* the model keeps it as the list of its statements:                       *)
(*   yield <command>, ctx.attributes.<key> = <val>, throw, return <value>. *)

\* the components of a duration are JS numbers; the model keeps each as a count of
\* halves, so that 2 stands for 1 and 3 for 1.5
NoDuration == [seconds |-> 0, minutes |-> 0, hours |-> 0, days |-> 0, weeks |-> 0]
\* rt.wait() called without a duration
MissingDuration == [seconds |-> -1, minutes |-> 0, hours |-> 0, days |-> 0, weeks |-> 0]
Undefined == [type |-> "undefined", templateId |-> "", duration |-> NoDuration]
SendEmailCmd(t) == [type |-> "SEND_EMAIL", templateId |-> t, duration |-> NoDuration]
SendSMSCmd == [type |-> "SEND_SMS", templateId |-> "", duration |-> NoDuration]
WaitCmd(d) == [type |-> "WAIT", templateId |-> "", duration |-> d]
Seconds(n) == [NoDuration EXCEPT !.seconds = 2 * n]

Yield(v) == [op |-> "yield", value |-> v, key |-> "", val |-> FALSE]
SetAttr(k, v) == [op |-> "set", value |-> Undefined, key |-> k, val |-> v]
Throw == [op |-> "throw", value |-> Undefined, key |-> "", val |-> FALSE]
Return(v) == [op |-> "return", value |-> v, key |-> "", val |-> FALSE]
\* if (!ctx.attributes.<key>) continue at statement <target>
Unless(k, target) ==
    [op |-> "unless", value |-> Undefined, key |-> k, val |-> FALSE, target |-> target]

\* function*(ctx, rt) { yield rt.sendEmail("welcome") }
FlowWelcome ==
    <<Yield(SendEmailCmd("welcome"))>>
\* function*(ctx, rt) { yield rt.sendEmail("welcome"); yield rt.wait({seconds: 1});
\*                      yield rt.sendEmail("welcome") }
FlowDrip ==
    <<Yield(SendEmailCmd("welcome")), Yield(WaitCmd(Seconds(1))),
      Yield(SendEmailCmd("welcome"))>>
\* function*(ctx, rt) { yield rt.sendEmail("welcome"); ctx.attributes.active = false;
\*                      yield rt.sendEmail("gone") }
FlowOptOut ==
    <<Yield(SendEmailCmd("welcome")), SetAttr("active", FALSE),
      Yield(SendEmailCmd("gone"))>>
\* function*(ctx, rt) { yield rt.sendSMS({body: "hi"}) }
FlowSms ==
    <<Yield(SendSMSCmd)>>
\* function*(ctx, rt) { yield rt.sendEmail("welcome"); return rt.sendEmail("welcome") }
FlowFarewell ==
    <<Yield(SendEmailCmd("welcome")), Return(SendEmailCmd("welcome"))>>

\* function*(ctx, rt) {
\*   if (ctx.attributes.active) {
\*     yield rt.sendEmail("welcome"); yield rt.wait({seconds: 1}); return
\*   }
\*   yield rt.wait({seconds: 1}); yield rt.sendEmail("welcome")
\* }
FlowFork ==
    <<Unless("active", 5),
      Yield(SendEmailCmd("welcome")), Yield(WaitCmd(Seconds(1))), Return(Undefined),
      Yield(WaitCmd(Seconds(1))), Yield(SendEmailCmd("welcome"))>>

\* function*(ctx, rt) { yield rt.wait({hours: 1.5}) }
FlowNap ==
    <<Yield(WaitCmd([NoDuration EXCEPT !.hours = 3]))>>
\* function*(ctx, rt) { ctx.attributes.<key> = true; yield rt.wait({seconds: 1}) }
FlowMark(key) ==
    <<SetAttr(key, TRUE), Yield(WaitCmd(Seconds(1)))>>

Program(flow) ==
    CASE flow = "welcome" -> FlowWelcome
      [] flow = "drip" -> FlowDrip
      [] flow = "optout" -> FlowOptOut
      [] flow = "sms" -> FlowSms
      [] flow = "farewell" -> FlowFarewell
      [] flow = "nap" -> FlowNap
      [] flow = "fork" -> FlowFork
      [] flow = "mark-a" -> FlowMark("a")
      [] flow = "mark-b" -> FlowMark("b")
      \* function*(ctx, rt) { yield rt.sendEmail("welcome"); throw new Error("boom") }
      [] flow = "boom" -> <<Yield(SendEmailCmd("welcome")), Throw>>
      \* function*(ctx, rt) { yield }
      [] flow = "blank" -> <<Yield(Undefined)>>
      \* function*(ctx, rt) { yield {type: "SEND_FAX"} }
      [] flow = "fax" -> <<Yield([SendSMSCmd EXCEPT !.type = "SEND_FAX"])>>
      \* function*(ctx, rt) { yield rt.sendEmail("welcome"); return }
      [] flow = "bye" -> <<Yield(SendEmailCmd("welcome")), Return(Undefined)>>
      \* function*(ctx, rt) { return rt.sendEmail("welcome") }
      [] flow = "adieu" -> <<Return(SendEmailCmd("welcome"))>>
      [] OTHER -> <<Throw>>

\* the attributes as the sandbox hands them back: convertArbitraryObjectToJSValue
\* followed by vm.dump keeps strings, numbers and booleans of a flat document
vmRoundTrip(attributes) ==
    [k \in DOMAIN attributes |-> attributes[k]]

\* one generator.next(): run statements from pc to the next yield, return or throw
RECURSIVE GeneratorNext(_, _, _)
GeneratorNext(prog, pc, attributes) ==
    IF pc > Len(prog)
    THEN [pc |-> pc, attributes |-> attributes, value |-> Undefined,
          done |-> TRUE, threw |-> FALSE]
    ELSE LET s == prog[pc]
         IN CASE s.op = "yield" ->
                   [pc |-> pc + 1, attributes |-> attributes, value |-> s.value,
                    done |-> FALSE, threw |-> FALSE]
              [] s.op = "set" ->
                   GeneratorNext(prog, pc + 1, Put(attributes, s.key, s.val))
              [] s.op = "unless" ->
                   GeneratorNext(prog,
                       IF s.key \in DOMAIN attributes /\ attributes[s.key] = TRUE
                       THEN pc + 1 ELSE s.target,
                       attributes)
              [] s.op = "return" ->
                   [pc |-> Len(prog) + 1, attributes |-> attributes, value |-> s.value,
                    done |-> TRUE, threw |-> FALSE]
              [] OTHER ->
                   [pc |-> Len(prog) + 1, attributes |-> attributes, value |-> Undefined,
                    done |-> FALSE, threw |-> TRUE]

RECURSIVE GeneratorLoop(_, _, _, _, _)
GeneratorLoop(prog, attributeStates, targetIndex, i, pc) ==
    LET r == GeneratorNext(prog, pc, vmRoundTrip(attributeStates[i + 1]))
    IN  IF r.threw \/ r.done \/ i = targetIndex
        THEN r
        ELSE GeneratorLoop(prog, attributeStates, targetIndex, i + 1, r.pc)

executeGeneratorToIndex(generatorCode, attributeStates, targetIndex) ==
    LET r == GeneratorLoop(Program(generatorCode), attributeStates, targetIndex, 0, 1)
    IN  [value |-> r.value, done |-> r.done, attributes |-> r.attributes,
         threw |-> r.threw]

-----------------------------------------------------------------------------
(* The tables *)

EmptyDb ==
    [users |-> EmptyTable,
     events |-> {},
     nextEventId |-> 1,
     segments |-> EmptyTable,
     segmentEventTriggers |-> {},
     segmentUsers |-> {},
     campaigns |-> EmptyTable,
     campaignSegments |-> {},
     campaignExcludeSegments |-> {},
     campaignUsers |-> {},
     executions |-> EmptyTable,
     executionHistory |-> {},
     templates |-> EmptyTable,
     transactions |-> EmptyTable,
     emailProvider |-> FALSE,
     configs |-> <<>>]

\* DELETE FROM campaign_users WHERE (user_id, campaign_id) IN ks, with the cascades
\* e_user_campaign_fk (executions) and ehs_execution_fk (execution_history)
DeleteCampaignUsers(d, ks) ==
    [d EXCEPT !.campaignUsers = @ \ ks,
              !.executions = Drop(@, ks),
              !.executionHistory = {h \in @ : <<h.userId, h.campaignId>> \notin ks}]

IncludeOf(d, c) == {k[2] : k \in {x \in d.campaignSegments : x[1] = c}}
ExcludeOf(d, c) == {k[2] : k \in {x \in d.campaignExcludeSegments : x[1] = c}}
SegmentsOfUser(d, u) == {k[2] : k \in {x \in d.segmentUsers : x[1] = u}}

evaluateUserCampaign(d, userId, campaignId) ==
    LET userSegmentIds == SegmentsOfUser(d, userId)
        matchesInclude == \A s \in IncludeOf(d, campaignId) : s \in userSegmentIds
        matchesExclude == \E s \in ExcludeOf(d, campaignId) : s \in userSegmentIds
    IN  matchesInclude /\ ~matchesExclude

evaluateSegmentForAllUsers(d, segmentId) ==
    LET current == {k[1] : k \in {x \in d.segmentUsers : x[2] = segmentId}}
        matches == RunEvaluator(d, d.segments[segmentId].evaluator)
        toAdd == matches \ current
        toRemove == current \ matches
    IN  [db |-> [d EXCEPT !.segmentUsers =
                    (@ \ {<<u, segmentId>> : u \in toRemove})
                       \cup {<<u, segmentId>> : u \in toAdd}],
         added |-> toAdd, removed |-> toRemove]

\* the membership flips of userId over the segments in segs
FlipUserSegments(d, userId, segs) ==
    LET current == SegmentsOfUser(d, userId)
        isMatch(s) == userId \in RunEvaluator(d, d.segments[s].evaluator)
        added == {s \in segs : isMatch(s) /\ s \notin current}
        removed == {s \in segs : ~isMatch(s) /\ s \in current}
    IN  [db |-> [d EXCEPT !.segmentUsers =
                    (@ \ {<<userId, s>> : s \in removed})
                       \cup {<<userId, s>> : s \in added}],
         added |-> added, removed |-> removed]

evaluateUserSegments(d, userId) ==
    FlipUserSegments(d, userId, DOMAIN d.segments)

evaluateUserSegmentsAfterEvent(d, userId, eventName) ==
    FlipUserSegments(d, userId,
        {k[1] : k \in {x \in d.segmentEventTriggers : x[2] = eventName}}
           \cap DOMAIN d.segments)

\* campaign.behavior === "static"
IsStaticNever(behavior) == FALSE
IsStatic(behavior) == behavior = "static"

evaluateUserCampaigns(d, userId) ==
    LET should(c) == evaluateUserCampaign(d, userId, c)
        isIn(c) == <<userId, c>> \in d.campaignUsers
        needsUpdate(c) == IF IsStatic(d.campaigns[c].behavior)
                          THEN should(c) /\ ~isIn(c)
                          ELSE should(c) # isIn(c)
        added == {c \in DOMAIN d.campaigns : needsUpdate(c) /\ should(c)}
        removed == {c \in DOMAIN d.campaigns :
                      needsUpdate(c) /\ ~should(c) /\ ~IsStatic(d.campaigns[c].behavior)}
        d1 == DeleteCampaignUsers(d, {<<userId, c>> : c \in removed})
    IN  [db |-> [d1 EXCEPT !.campaignUsers = @ \cup {<<userId, c>> : c \in added}],
         added |-> added, removed |-> removed]

\* INSERT INTO executions: the row needs its campaign_users row (e_user_campaign_fk)
\* and a free primary key
createExecution(d, userId, campaignId, now) ==
    IF /\ campaignId \in DOMAIN d.campaigns
       /\ <<userId, campaignId>> \in d.campaignUsers
       /\ <<userId, campaignId>> \notin DOMAIN d.executions
    THEN [d EXCEPT !.executions =
            Put(@, <<userId, campaignId>>,
                [status |-> "pending", sleepUntil |-> now, error |-> ""])]
    ELSE d

\* createExecution for each (user, campaign) of ks
RECURSIVE createExecutions(_, _, _)
createExecutions(d, ks, now) ==
    IF ks = {} THEN d
    ELSE LET k == CHOOSE x \in ks : TRUE
         IN  createExecutions(createExecution(d, k[1], k[2], now), ks \ {k}, now)

killExecution(d, userId, campaignId, error) ==
    IF <<userId, campaignId>> \notin DOMAIN d.executions
    THEN d
    ELSE [d EXCEPT !.executions[<<userId, campaignId>>] =
            [@ EXCEPT !.status = "terminated", !.error = error]]

RECURSIVE killExecutions(_, _, _, _)
killExecutions(d, ks, cs, error) ==
    IF ks = {} THEN d
    ELSE LET k == CHOOSE x \in ks : TRUE
         IN  killExecutions(
                IF k[2] \in cs THEN killExecution(d, k[1], k[2], error) ELSE d,
                ks \ {k}, cs, error)

\* the loops of reevaluateUserMembershipsAfterAttributeChange over the campaign
\* updates camp of evaluateUserCampaigns: createExecution for each added campaign,
\* killExecution for each removed dynamic one
ApplyUserCampaignUpdates(camp, userId, reason, now) ==
    killExecutions(
        createExecutions(camp.db, {<<userId, c>> : c \in camp.added}, now),
        {<<userId, c>> : c \in camp.removed},
        {c \in camp.removed : c \in DOMAIN camp.db.campaigns
                              /\ camp.db.campaigns[c].behavior = "dynamic"},
        reason)

\* eventName = "" stands for a call without options.event; the result is the
\* database after the call
reevaluateUserMembershipsAfterAttributeChange(d, userId, reason, eventName, now) ==
    ApplyUserCampaignUpdates(
        evaluateUserCampaigns(
            (IF eventName # ""
             THEN evaluateUserSegmentsAfterEvent(d, userId, eventName)
             ELSE evaluateUserSegments(d, userId)).db,
            userId),
        userId, reason, now)

-----------------------------------------------------------------------------
(* Ingress services: each returns the database after the call; ok = FALSE  *)
(* is a thrown error (a transaction leaves the database as it was).        *)

\* {...existing, ...attributes}
ShallowMerge(existing, attributes) ==
    [k \in (DOMAIN existing) \cup (DOMAIN attributes) |->
        IF k \in DOMAIN attributes THEN attributes[k] ELSE existing[k]]

createUser(d, id, attributes, now) ==
    IF id \in DOMAIN d.users
    THEN [db |-> d, ok |-> FALSE]
    ELSE [db |-> reevaluateUserMembershipsAfterAttributeChange(
                    [d EXCEPT !.users = Put(@, id, [attributes |-> attributes])],
                    id, "initial user evaluation", "", now),
          ok |-> TRUE]

updateUser(d, userId, attributes, now) ==
    IF userId \notin DOMAIN d.users
    THEN [db |-> d, ok |-> FALSE]
    ELSE [db |-> reevaluateUserMembershipsAfterAttributeChange(
                    [d EXCEPT !.users[userId].attributes = ShallowMerge(@, attributes)],
                    userId,
                    "User was updated and no longer matches campaign criteria", "", now),
          ok |-> TRUE]

\* campaign_users.user_id references users.id without ON DELETE CASCADE
deleteUser(d, userId) ==
    IF \E k \in d.campaignUsers : k[1] = userId
    THEN [db |-> d, ok |-> FALSE]
    ELSE [db |-> [d EXCEPT !.users = Drop(@, {userId}),
                           !.events = {e \in @ : e.userId # userId},
                           !.segmentUsers = {k \in @ : k[1] # userId}],
          ok |-> TRUE]

createEvent(d, userId, name, now) ==
    IF userId \notin DOMAIN d.users
    THEN [db |-> d, ok |-> FALSE]
    ELSE [db |-> reevaluateUserMembershipsAfterAttributeChange(
                    [d EXCEPT !.events = @ \cup
                        {[id |-> d.nextEventId, name |-> name, userId |-> userId]},
                              !.nextEventId = @ + 1],
                    userId, "user removed due to event", name, now),
          ok |-> TRUE]

\* what the rendering and the provider do with one transactional email
MailOutcomes == {"delivered", "render error", "transport error"}

\* SELECT ... FROM transactions WHERE event = name: the rows LIMIT 1 picks from
MatchingTransactions(d, name) ==
    {t \in DOMAIN d.transactions : d.transactions[t].event = name}

\* the emails handed to the provider and the error thrown, "" when none is
sendTransactionEmail(d, transactionId, eventId, mail) ==
    LET none(error) == [emails |-> <<>>, error |-> error]
    IN  IF ~\E e \in d.events : e.id = eventId THEN none("Event not found")
        ELSE LET event == CHOOSE e \in d.events : e.id = eventId
             IN  IF transactionId \notin DOMAIN d.transactions
                 THEN none("Transaction not found")
                 ELSE IF d.transactions[transactionId].event # event.name
                 THEN none("event does not match transaction")
                 ELSE IF event.userId \notin DOMAIN d.users THEN none("user not found")
                 ELSE IF mail = "render error" THEN none("render error")
                 ELSE IF ~d.emailProvider THEN none("No email provider configured")
                 ELSE IF mail = "transport error" THEN none("Postmark API error")
                 ELSE [emails |-> <<[to |-> d.users[event.userId].attributes.email,
                                     userId |-> event.userId,
                                     transactionId |-> transactionId,
                                     eventId |-> eventId]>>,
                       error |-> ""]

\* the try block of createEvent on the committed database d: the outcomes of the
\* dispatch, one for each row the LIMIT 1 may return
TransactionDispatchTwice(d, name, eventId, mail) ==
    IF MatchingTransactions(d, name) = {}
    THEN {[emails |-> <<>>, error |-> ""]}
    ELSE {[emails |-> sendTransactionEmail(d, t, eventId, mail).emails
                         \o sendTransactionEmail(d, t, eventId, mail).emails,
           error |-> sendTransactionEmail(d, t, eventId, mail).error] :
              t \in MatchingTransactions(d, name)}
TransactionDispatch(d, name, eventId, mail) ==
    IF MatchingTransactions(d, name) = {}
    THEN {[emails |-> <<>>, error |-> ""]}
    ELSE {sendTransactionEmail(d, t, eventId, mail) : t \in MatchingTransactions(d, name)}

\* what createEvent returns after the dispatch m that followed the transaction r:
\* the catch block logs the error of the dispatch
DispatchThrown(r, m) ==
    IF m.error # "" THEN [db |-> r.db, ok |-> FALSE, emails |-> <<>>]
    ELSE [db |-> r.db, ok |-> TRUE, emails |-> m.emails]
DispatchCaught(r, m) ==
    [db |-> r.db, ok |-> TRUE, emails |-> m.emails]

\* the returns of createEvent as a whole; a transaction that throws rolls back and
\* nothing follows it
emitEvent(d, userId, name, now, mail) ==
    IF ~createEvent(d, userId, name, now).ok
    THEN {[db |-> d, ok |-> FALSE, emails |-> <<>>]}
    ELSE {DispatchCaught(createEvent(d, userId, name, now), m) :
            m \in TransactionDispatch(createEvent(d, userId, name, now).db, name,
                                      d.nextEventId, mail)}

\* the campaign changes of user u, from its result r of evaluateUserCampaigns
CampaignChangesOf(u, r) ==
    {[userId |-> u, campaignId |-> c, type |-> "added"] : c \in r.added}
       \cup {[userId |-> u, campaignId |-> c, type |-> "removed"] : c \in r.removed}

\* evaluateUserCampaigns for each affected user, collecting the changes
RECURSIVE ReevaluateUsers(_, _, _)
ReevaluateUsers(d, us, changes) ==
    IF us = {} THEN [db |-> d, campaignChanges |-> changes]
    ELSE ReevaluateUsers(
            evaluateUserCampaigns(d, CHOOSE x \in us : TRUE).db,
            us \ {CHOOSE x \in us : TRUE},
            changes \cup CampaignChangesOf(CHOOSE x \in us : TRUE,
                            evaluateUserCampaigns(d, CHOOSE x \in us : TRUE)))

reevaluateCampaignsForSegmentChange(d, segmentId, segmentChanges) ==
    LET affectedCampaigns ==
            {c \in DOMAIN d.campaigns :
                segmentId \in IncludeOf(d, c) \/ segmentId \in ExcludeOf(d, c)}
        affectedUsers == segmentChanges.added \cup segmentChanges.removed
    IN  IF affectedCampaigns # {} /\ affectedUsers # {}
        THEN ReevaluateUsers(d, affectedUsers, {})
        ELSE [db |-> d, campaignChanges |-> {}]

\* one turn of the loop over campaignUpdates.campaignChanges
ApplyCampaignChange(d, ch, now) ==
    IF ch.type = "added"
    THEN createExecution(d, ch.userId, ch.campaignId, now)
    ELSE IF ch.campaignId \in DOMAIN d.campaigns
            /\ d.campaigns[ch.campaignId].behavior = "static"
         THEN d
         ELSE killExecution(d, ch.userId, ch.campaignId, "user removed from segment")

\* the loop over campaignUpdates.campaignChanges of createSegment and updateSegment
RECURSIVE ApplyCampaignChanges(_, _, _, _)
ApplyCampaignChanges(d, changes, segmentId, now) ==
    IF changes = {} THEN d
    ELSE ApplyCampaignChanges(
            ApplyCampaignChange(d, CHOOSE x \in changes : TRUE, now),
            changes \ {CHOOSE x \in changes : TRUE}, segmentId, now)

\* after reevaluateCampaignsForSegmentChange returned upd
CampaignsReevaluated(upd, segmentId, now) ==
    ApplyCampaignChanges(upd.db, upd.campaignChanges, segmentId, now)

\* after evaluateSegmentForAllUsers returned stats
SegmentEvaluated(stats, segmentId, now) ==
    CampaignsReevaluated(
        reevaluateCampaignsForSegmentChange(stats.db, segmentId, stats),
        segmentId, now)

\* the part createSegment and updateSegment share, after the segment row is written:
\* the triggers of the segment are deleted (it has none yet in createSegment) and
\* those of the evaluator inserted
SegmentWrittenKeepingTriggers(d, segmentId, evaluator, now) ==
    SegmentEvaluated(
        evaluateSegmentForAllUsers(
            [d EXCEPT !.segmentEventTriggers =
                @ \cup {<<segmentId, e>> : e \in extractEventTriggersFromSQL(evaluator)}],
            segmentId),
        segmentId, now)
SegmentWritten(d, segmentId, evaluator, now) ==
    SegmentEvaluated(
        evaluateSegmentForAllUsers(
            [d EXCEPT !.segmentEventTriggers =
                {k \in @ : k[1] # segmentId}
                   \cup {<<segmentId, e>> : e \in extractEventTriggersFromSQL(evaluator)}],
            segmentId),
        segmentId, now)

createSegment(d, segmentId, evaluator, now) ==
    IF astifyThrows(evaluator) \/ segmentId \in DOMAIN d.segments
    THEN [db |-> d, ok |-> FALSE]
    ELSE [db |-> SegmentWritten(
                    [d EXCEPT !.segments = Put(@, segmentId, [evaluator |-> evaluator])],
                    segmentId, evaluator, now),
          ok |-> TRUE]

\* UPDATE of a missing segment row changes nothing, and evaluateSegmentForAllUsers
\* then throws "Segment not found"
updateSegment(d, segmentId, evaluator, now) ==
    IF astifyThrows(evaluator) \/ segmentId \notin DOMAIN d.segments
    THEN [db |-> d, ok |-> FALSE]
    ELSE [db |-> SegmentWritten(
                    [d EXCEPT !.segments[segmentId] = [evaluator |-> evaluator]],
                    segmentId, evaluator, now),
          ok |-> TRUE]

checkSegmentDeletionConstraintsInclude(d, segmentId) ==
    {c \in DOMAIN d.campaigns : segmentId \in IncludeOf(d, c)}
checkSegmentDeletionConstraints(d, segmentId) ==
    {c \in DOMAIN d.campaigns :
        segmentId \in IncludeOf(d, c) \/ segmentId \in ExcludeOf(d, c)}

deleteSegment(d, segmentId) ==
    IF checkSegmentDeletionConstraints(d, segmentId) # {}
    THEN [db |-> d, ok |-> FALSE]
    ELSE [db |-> [d EXCEPT !.segments = Drop(@, {segmentId}),
                           !.segmentEventTriggers = {k \in @ : k[1] # segmentId},
                           !.segmentUsers = {k \in @ : k[2] # segmentId}],
          ok |-> TRUE]

\* INSERT of the relation rows one statement at a time; stops at the first segment
\* id that is unknown (foreign key) or repeated (primary key)
RECURSIVE InsertRelations(_, _, _)
InsertRelations(known, done, segs) ==
    IF segs = <<>> THEN [rows |-> done, ok |-> TRUE]
    ELSE IF Head(segs) \notin known \/ Head(segs) \in done
         THEN [rows |-> done, ok |-> FALSE]
         ELSE InsertRelations(known, done \cup {Head(segs)}, Tail(segs))

SeqRange(q) == {q[i] : i \in DOMAIN q}

\* the users in every include segment and in no exclude segment; an empty list
\* given to inArray selects nothing
includedUsers(d, req) ==
    {u \in {k[1] : k \in d.segmentUsers} :
        /\ Cardinality(SegmentsOfUser(d, u) \cap SeqRange(req.segments))
              = Len(req.segments)
        /\ SegmentsOfUser(d, u) \cap SeqRange(req.segments) # {}
        /\ ~(req.hasExclude
             /\ SegmentsOfUser(d, u) \cap SeqRange(req.excludeSegments) # {})}

\* INSERT INTO campaign_users and a createExecution for each included user
InitialMembers(d, req, users, now) ==
    createExecutions(
        [d EXCEPT !.campaignUsers = @ \cup {<<u, req.id>> : u \in users}],
        {<<u, req.id>> : u \in users}, now)

\* after the INSERTs into campaign_exclude_segments, exc their outcome
ExcludeInserted(d, exc, req, now) ==
    IF ~exc.ok
    THEN [db |-> [d EXCEPT !.campaignExcludeSegments =
                     @ \cup {<<req.id, s>> : s \in exc.rows}],
          ok |-> FALSE]
    ELSE [db |-> InitialMembers(
                    [d EXCEPT !.campaignExcludeSegments =
                        @ \cup {<<req.id, s>> : s \in exc.rows}],
                    req,
                    includedUsers(
                        [d EXCEPT !.campaignExcludeSegments =
                            @ \cup {<<req.id, s>> : s \in exc.rows}], req),
                    now),
          ok |-> TRUE]

\* after the INSERTs into campaign_segments, inc their outcome
IncludeInserted(d, inc, req, now) ==
    IF ~inc.ok
    THEN [db |-> [d EXCEPT !.campaignSegments = @ \cup {<<req.id, s>> : s \in inc.rows}],
          ok |-> FALSE]
    ELSE ExcludeInserted(
            [d EXCEPT !.campaignSegments = @ \cup {<<req.id, s>> : s \in inc.rows}],
            IF req.hasExclude
            THEN InsertRelations(DOMAIN d.segments, {}, req.excludeSegments)
            ELSE [rows |-> {}, ok |-> TRUE],
            req, now)

\* createCampaign runs on the connection it is given: autocommitted statements when
\* called by the HTTP handler.  req.hasExclude tells whether excludeSegments is given.
createCampaign(d, req, now) ==
    IF req.id \in DOMAIN d.campaigns
    THEN [db |-> d, ok |-> FALSE]
    ELSE IncludeInserted(
            [d EXCEPT !.campaigns =
                Put(@, req.id, [flow |-> req.flow, behavior |-> req.behavior])],
            InsertRelations(DOMAIN d.segments, {}, req.segments),
            req, now)

\* the DELETE FROM campaigns of deleteCampaign: it cascades to the relations,
\* campaign_users, executions and execution_history
DeleteCampaignRowOnly(d, campaignId) ==
    [d EXCEPT !.campaigns = Drop(@, {campaignId}),
              !.campaignSegments = {k \in @ : k[1] # campaignId},
              !.campaignExcludeSegments = {k \in @ : k[1] # campaignId}]
DeleteCampaignRow(d, campaignId) ==
    [DeleteCampaignUsers(d, {k \in d.campaignUsers : k[2] = campaignId})
        EXCEPT !.campaigns = Drop(@, {campaignId}),
               !.campaignSegments = {k \in @ : k[1] # campaignId},
               !.campaignExcludeSegments = {k \in @ : k[1] # campaignId}]

deleteCampaign(d, campaignId) ==
    [db |-> DeleteCampaignRow(
                killExecutions(d, {k \in DOMAIN d.executions : k[2] = campaignId},
                               {campaignId}, "Campaign deleted"),
                campaignId),
     ok |-> TRUE]

-----------------------------------------------------------------------------
(* The configuration push: createConfig, analyzeConfig, executeConfigDelta.  *)
(* A JS object with string keys is a sequence of <<key, value>> in insertion *)
(* order, the order Object.keys and JSON.stringify follow.                   *)

\* the keys that occur in configurations, in the order MySQL keeps the keys of a
\* stored JSON object: shorter keys first, keys of one length by their bytes
KeyOrder ==
    <<"c1", "c2", "name", "promo", "reset", "active", "apiKey", "buyers", "region",
      "engaged", "welcome", "accessKeyId", "secretAccessKey">>

KeySet(obj) == {obj[i][1] : i \in DOMAIN obj}

Get(obj, key) == obj[CHOOSE i \in DOMAIN obj : obj[i][1] = key][2]

\* the keys of obj in the order of a stored JSON object
StoredKeys(obj) ==
    LET Has(k) == k \in KeySet(obj)
    IN  SelectSeq(KeyOrder, Has)

\* obj as it is read back from a JSON column
StoredObject(obj) ==
    [i \in DOMAIN StoredKeys(obj) |->
        <<StoredKeys(obj)[i], Get(obj, StoredKeys(obj)[i])>>]

\* the configuration as a later push reads it from configs.config_json
StoredConfig(config) ==
    [templates |-> StoredObject(config.templates),
     transactions |-> StoredObject(config.transactions),
     segments |-> StoredObject(config.segments),
     campaigns |-> StoredObject(config.campaigns),
     emailProvider |-> [config |-> StoredObject(config.emailProvider.config),
                        fromAddress |-> config.emailProvider.fromAddress]]

\* Array.prototype.sort on an array of strings
RECURSIVE SortStrings(_)
SortStrings(q) ==
    IF q = <<>> THEN <<>>
    ELSE LET Has(k) == \E i \in DOMAIN q : q[i] = k
             NotFirst(k) == k # Head(SelectSeq(KeyOrder, Has))
         IN  [i \in 1..(Len(q) - Len(SelectSeq(q, NotFirst))) |->
                 Head(SelectSeq(KeyOrder, Has))]
                \o SortStrings(SelectSeq(q, NotFirst))

\* lastConfig of a database without a Config row: every lastConfig?.x is undefined
NoProvider == [config |-> <<>>, fromAddress |-> ""]

NoConfig ==
    [templates |-> <<>>, transactions |-> <<>>, segments |-> <<>>,
     campaigns |-> <<>>, emailProvider |-> NoProvider]

\* the rows SELECT ... ORDER BY created_at DESC LIMIT 1 may return: created_at has
\* a resolution of one second and rows of one second come in no defined order
LastConfigs(d) ==
    IF d.configs = <<>> THEN {NoConfig}
    ELSE {d.configs[i].configJson :
            i \in {j \in DOMAIN d.configs :
                     \A k \in DOMAIN d.configs :
                        d.configs[k].createdAt <= d.configs[j].createdAt}}

\* the comparison of an old and a new entry of one category
Differs(category, old, new) ==
    CASE category = "template" -> old.subject # new.subject
      [] category = "transaction" ->
            old.event # new.event \/ old.subject # new.subject
      [] category = "segment" -> old.evaluator # new.evaluator
      [] category = "campaign" ->
            \/ old.flow # new.flow
            \/ old.behavior # new.behavior
            \/ SortStrings(old.segments) # SortStrings(new.segments)
            \/ SortStrings(old.excludeSegments) # SortStrings(new.excludeSegments)

\* the loop over oldIds: a delete for each id the new object lacks
DeleteOperations(category, old, new) ==
    LET Gone(p) == p[1] \notin KeySet(new)
    IN  [i \in DOMAIN SelectSeq(old, Gone) |->
            [category |-> category, type |-> "delete",
             id |-> SelectSeq(old, Gone)[i][1], data |-> <<>>]]

\* the loop over newIds: an add for a new id, an update for a changed entry, in
\* the order of the new object's keys
AddOrUpdateOperations(category, old, new) ==
    LET Changed(p) == \/ p[1] \notin KeySet(old)
                      \/ Differs(category, Get(old, p[1]), p[2])
    IN  [i \in DOMAIN SelectSeq(new, Changed) |->
            [category |-> category,
             type |-> IF SelectSeq(new, Changed)[i][1] \notin KeySet(old)
                      THEN "add" ELSE "update",
             id |-> SelectSeq(new, Changed)[i][1],
             data |-> SelectSeq(new, Changed)[i][2]]]

computeTemplateOperations(oldTemplates, newTemplates) ==
    DeleteOperations("template", oldTemplates, newTemplates)
       \o AddOrUpdateOperations("template", oldTemplates, newTemplates)

computeSegmentOperations(oldSegments, newSegments) ==
    DeleteOperations("segment", oldSegments, newSegments)
       \o AddOrUpdateOperations("segment", oldSegments, newSegments)

computeCampaignOperations(oldCampaigns, newCampaigns) ==
    DeleteOperations("campaign", oldCampaigns, newCampaigns)
       \o AddOrUpdateOperations("campaign", oldCampaigns, newCampaigns)

computeTransactionOperations(oldTransactions, newTransactions) ==
    DeleteOperations("transaction", oldTransactions, newTransactions)
       \o AddOrUpdateOperations("transaction", oldTransactions, newTransactions)

\* JSON.stringify(oldProvider) !== JSON.stringify(newProvider): the keys count in
\* their order
computeEmailProviderOperations(oldProvider, newProvider) ==
    IF oldProvider = NoProvider \/ oldProvider # newProvider
    THEN <<[category |-> "emailProvider", type |-> "update", id |-> "",
            data |-> newProvider]>>
    ELSE <<>>

\* lastConfig is the row the query of analyzeConfig returned
analyzeConfig(lastConfig, newConfig) ==
    [templateOperations |->
        computeTemplateOperations(lastConfig.templates, newConfig.templates),
     segmentOperations |->
        computeSegmentOperations(lastConfig.segments, newConfig.segments),
     campaignOperations |->
        computeCampaignOperations(lastConfig.campaigns, newConfig.campaigns),
     transactionOperations |->
        computeTransactionOperations(lastConfig.transactions, newConfig.transactions),
     emailProviderOperations |->
        computeEmailProviderOperations(lastConfig.emailProvider,
                                       newConfig.emailProvider)]

\* the loops with the campaigns before the segments
DeltaOperationsCampaignsFirst(delta) ==
    delta.templateOperations \o delta.transactionOperations
       \o delta.campaignOperations \o delta.segmentOperations
       \o delta.emailProviderOperations

\* the five loops of executeConfigDelta, one after the other
DeltaOperations(delta) ==
    delta.templateOperations \o delta.transactionOperations
       \o delta.segmentOperations \o delta.campaignOperations
       \o delta.emailProviderOperations

\* INSERT with a primary key: createTemplate, createTransaction
InsertRow(table, id, row) ==
    IF id \in DOMAIN table
    THEN [table |-> table, ok |-> FALSE]
    ELSE [table |-> Put(table, id, row), ok |-> TRUE]

\* updateTemplate, updateTransaction: "not found" unless the row is there
UpdateRow(table, id, row) ==
    IF id \notin DOMAIN table
    THEN [table |-> table, ok |-> FALSE]
    ELSE [table |-> Put(table, id, row), ok |-> TRUE]

\* deleteTemplate, deleteTransaction
DeleteRow(table, id) == [table |-> Drop(table, {id}), ok |-> TRUE]

RowOperation(table, op) ==
    CASE op.type = "add" -> InsertRow(table, op.id, op.data)
      [] op.type = "update" -> UpdateRow(table, op.id, op.data)
      [] op.type = "delete" -> DeleteRow(table, op.id)

setEmailProvider(d, provider) == [d EXCEPT !.emailProvider = TRUE]

\* one turn of a loop of executeConfigDelta: the database after it, ok = FALSE when
\* the call throws
ExecuteOperation(d, op, now) ==
    CASE op.category = "template" ->
           [db |-> [d EXCEPT !.templates = RowOperation(d.templates, op).table],
            ok |-> RowOperation(d.templates, op).ok]
      [] op.category = "transaction" ->
           [db |-> [d EXCEPT !.transactions = RowOperation(d.transactions, op).table],
            ok |-> RowOperation(d.transactions, op).ok]
      [] op.category = "segment" ->
           (CASE op.type = "add" -> createSegment(d, op.id, op.data.evaluator, now)
              [] op.type = "update" -> updateSegment(d, op.id, op.data.evaluator, now)
              [] op.type = "delete" -> deleteSegment(d, op.id))
      [] op.category = "campaign" ->
           (CASE op.type = "add" ->
                   createCampaign(d,
                      [id |-> op.id, flow |-> op.data.flow,
                       behavior |-> op.data.behavior, segments |-> op.data.segments,
                       hasExclude |-> op.data.hasExclude,
                       excludeSegments |-> op.data.excludeSegments], now)
              [] op.type = "update" -> [db |-> d, ok |-> FALSE]
              [] op.type = "delete" -> deleteCampaign(d, op.id))
      [] op.category = "emailProvider" ->
           [db |-> setEmailProvider(d, op.data), ok |-> TRUE]

\* the operations in their order until one throws
RECURSIVE ExecuteOperations(_, _, _)
ExecuteOperations(r, ops, now) ==
    IF ops = <<>> \/ ~r.ok THEN [db |-> r.db, ok |-> r.ok]
    ELSE ExecuteOperations(ExecuteOperation(r.db, Head(ops), now), Tail(ops), now)

executeConfigDelta(d, delta, now) ==
    ExecuteOperations([db |-> d, ok |-> TRUE], DeltaOperations(delta), now)

\* after executeConfigDelta: the INSERT INTO configs, or the rollback of the push
DeltaExecuted(d, r, config, now) ==
    IF ~r.ok
    THEN [db |-> d, ok |-> FALSE, noChanges |-> FALSE]
    ELSE [db |-> [r.db EXCEPT !.configs =
                     Append(@, [configJson |-> StoredConfig(config),
                                createdAt |-> now])],
          ok |-> TRUE, noChanges |-> FALSE]

\* after analyzeConfig returned delta
ConfigAnalyzed(d, delta, config, now) ==
    IF /\ delta.templateOperations = <<>>
       /\ delta.segmentOperations = <<>>
       /\ delta.campaignOperations = <<>>
       /\ delta.transactionOperations = <<>>
       /\ delta.emailProviderOperations = <<>>
    THEN [db |-> d, ok |-> TRUE, noChanges |-> TRUE]
    ELSE DeltaExecuted(d, executeConfigDelta(d, delta, now), config, now)

\* lastConfig is the row the query of analyzeConfig returned
createConfig(d, lastConfig, config, now) ==
    ConfigAnalyzed(d, analyzeConfig(lastConfig, config), config, now)

-----------------------------------------------------------------------------
(* The tick: runExecutions and what it calls *)

Key(state) == <<state.userId, state.campaignId>>

HistoryOf(d, k) ==
    {h \in d.executionHistory : h.userId = k[1] /\ h.campaignId = k[2]}

\* the history rows of k ordered by step_index, as their attributes
RECURSIVE HistoryAttributes(_)
HistoryAttributes(rows) ==
    IF rows = {} THEN <<>>
    ELSE LET h == CHOOSE x \in rows : \A y \in rows : x.stepIndex <= y.stepIndex
         IN  <<h.attributes>> \o HistoryAttributes(rows \ {h})

\* stepIndex = history.length
StepIndex(history) == Cardinality(history)

setupExecutionState(d, state) ==
    LET k == Key(state)
        history == HistoryOf(d, k)
        none == [ok |-> FALSE, stepIndex |-> 0, attributeStates |-> <<>>,
                 error |-> "", behavior |-> "", flow |-> "", attributes |-> EmptyTable]
    IN  IF state.campaignId \notin DOMAIN d.campaigns
        THEN [none EXCEPT !.error = "Campaign not found"]
        ELSE IF state.userId \notin DOMAIN d.users
        THEN [none EXCEPT !.error = "User not found"]
        ELSE
          LET campaign == d.campaigns[state.campaignId]
              user == d.users[state.userId]
              some == [none EXCEPT !.ok = TRUE, !.behavior = campaign.behavior,
                                   !.flow = campaign.flow, !.attributes = user.attributes]
          IN  IF state.status = "pending"
              THEN [some EXCEPT !.stepIndex = 0, !.attributeStates = <<user.attributes>>]
              ELSE IF state.status = "sleeping"
              THEN IF history = {}
                   THEN [none EXCEPT !.error = "No execution history found for sleeping state"]
                   ELSE [some EXCEPT !.stepIndex = StepIndex(history),
                                     !.attributeStates =
                                        HistoryAttributes(history) \o <<user.attributes>>]
              ELSE [none EXCEPT !.error = "Unknown execution state"]

\* UPDATE executions SET ... WHERE (user_id, campaign_id) = k
UpdateExecution(d, k, status, sleepUntil, error) ==
    IF k \notin DOMAIN d.executions THEN d
    ELSE [d EXCEPT !.executions[k] =
            [status |-> status,
             sleepUntil |-> IF sleepUntil < 0 THEN @.sleepUntil ELSE sleepUntil,
             error |-> IF error = "" THEN @.error ELSE error]]

\* Date.prototype.setSeconds .. setDate take the integer part of their argument
ToIntegerOrInfinity(halves) == halves \div 2

\* the seconds a duration adds to a Date through setSeconds .. setDate
DurationSeconds(duration) ==
    ToIntegerOrInfinity(duration.seconds)
       + 60 * ToIntegerOrInfinity(duration.minutes)
       + 3600 * ToIntegerOrInfinity(duration.hours)
       + 86400 * ToIntegerOrInfinity(duration.days)
       + 86400 * ToIntegerOrInfinity(duration.weeks * 7)

\* sendTemplateEmail: the error it throws, or "" when the provider took the email
sendTemplateEmail(d, templateId, transportOk) ==
    IF templateId \notin DOMAIN d.templates THEN "template not found"
    ELSE IF ~d.emailProvider THEN "No email provider configured"
    ELSE IF ~transportOk THEN "Postmark API error"
    ELSE ""

\* returns the database, the emails handed to the provider and the error thrown
handleExecutionCommandLate(d, command, state, attributes, stepIndex, now, transportOk) ==
    CASE command.type = "WAIT" ->
           IF command.duration = MissingDuration
           THEN [db |-> d, emails |-> <<>>, error |-> "Wait command missing duration"]
           ELSE [db |-> UpdateExecution(d, Key(state), "sleeping",
                                        now + DurationSeconds(command.duration), ""),
                 emails |-> <<>>, error |-> ""]
      [] command.type = "SEND_EMAIL" ->
           LET e == sendTemplateEmail(d, command.templateId, transportOk)
           IN  IF e # ""
               THEN [db |-> d, emails |-> <<>>, error |-> e]
               ELSE [db |-> UpdateExecution(d, Key(state), "sleeping", now + 1, ""),
                     emails |-> <<[to |-> attributes.email, userId |-> state.userId,
                                   campaignId |-> state.campaignId,
                                   stepIndex |-> stepIndex]>>,
                     error |-> ""]
      [] command.type = "SEND_SMS" ->
           [db |-> d, emails |-> <<>>, error |-> "SMS sending not implemented"]
      [] OTHER ->
           [db |-> d, emails |-> <<>>, error |-> "Unknown command type"]
handleExecutionCommand(d, command, state, attributes, stepIndex, now, transportOk) ==
    CASE command.type = "WAIT" ->
           IF command.duration = MissingDuration
           THEN [db |-> d, emails |-> <<>>, error |-> "Wait command missing duration"]
           ELSE [db |-> UpdateExecution(d, Key(state), "sleeping",
                                        now + DurationSeconds(command.duration), ""),
                 emails |-> <<>>, error |-> ""]
      [] command.type = "SEND_EMAIL" ->
           LET e == sendTemplateEmail(d, command.templateId, transportOk)
           IN  IF e # ""
               THEN [db |-> d, emails |-> <<>>, error |-> e]
               ELSE [db |-> UpdateExecution(d, Key(state), "sleeping", now, ""),
                     emails |-> <<[to |-> attributes.email, userId |-> state.userId,
                                   campaignId |-> state.campaignId,
                                   stepIndex |-> stepIndex]>>,
                     error |-> ""]
      [] command.type = "SEND_SMS" ->
           [db |-> d, emails |-> <<>>, error |-> "SMS sending not implemented"]
      [] OTHER ->
           [db |-> d, emails |-> <<>>, error |-> "Unknown command type"]

\* INSERT INTO execution_history: needs its executions row (ehs_execution_fk) and a
\* free primary key (ehs_pk)
InsertHistoryShifted(d, k, stepIndex, attributes) ==
    [db |-> [d EXCEPT !.executionHistory = @ \cup
                {[userId |-> k[1], campaignId |-> k[2], stepIndex |-> stepIndex + 1,
                  attributes |-> attributes]}],
     ok |-> TRUE]
InsertHistory(d, k, stepIndex, attributes) ==
    IF k \in DOMAIN d.executions
       /\ ~\E h \in HistoryOf(d, k) : h.stepIndex = stepIndex
    THEN [db |-> [d EXCEPT !.executionHistory = @ \cup
                     {[userId |-> k[1], campaignId |-> k[2], stepIndex |-> stepIndex,
                       attributes |-> attributes]}],
          ok |-> TRUE]
    ELSE [db |-> d, ok |-> FALSE]

\* the catch block of processExecution
FailedSilently(d, state, error, emails) ==
    [db |-> UpdateExecution(d, Key(state), "failed", -1, ""),
     emails |-> emails, ok |-> FALSE]
Failed(d, state, error, emails) ==
    [db |-> UpdateExecution(d, Key(state), "failed", -1, error),
     emails |-> emails, ok |-> FALSE]

\* after handleExecutionCommand returned cmd
CommandHandledLeniently(d, cmd, state) ==
    IF cmd.error # ""
    THEN [db |-> UpdateExecution(d, Key(state), "completed", -1, ""),
          emails |-> cmd.emails, ok |-> TRUE]
    ELSE [db |-> cmd.db, emails |-> cmd.emails, ok |-> TRUE]
CommandHandled(d, cmd, state) ==
    IF cmd.error # "" THEN Failed(d, state, cmd.error, cmd.emails)
    ELSE [db |-> cmd.db, emails |-> cmd.emails, ok |-> TRUE]

\* after the changed attributes, if any, are written back and the memberships
\* re-evaluated
AttributesWritten(d, result, st, state, now, transportOk) ==
    IF result.done /\ result.value = Undefined
    THEN [db |-> UpdateExecution(d, Key(state), "completed", -1, ""),
          emails |-> <<>>, ok |-> TRUE]
    ELSE IF result.value = Undefined
    THEN Failed(d, state, "Generator yielded undefined", <<>>)
    ELSE IF st.behavior = "dynamic"
            /\ ~evaluateUserCampaign(d, state.userId, state.campaignId)
    THEN [db |-> killExecution(d, state.userId, state.campaignId,
                               "User no longer matches campaign criteria"),
          emails |-> <<>>, ok |-> TRUE]
    ELSE CommandHandled(d,
            handleExecutionCommand(d, result.value, state, st.attributes,
                                   st.stepIndex, now, transportOk),
            state)

\* the attributes the flow handed back are compared with those of the user row
\* that setupExecutionState read; when they differ the row is updated and the
\* memberships of the user re-evaluated
WrittenBackWithoutReevaluation(d, result, st, state, now) ==
    IF result.attributes # st.attributes
    THEN [d EXCEPT !.users =
            IF state.userId \in DOMAIN @
            THEN [@ EXCEPT ![state.userId].attributes = result.attributes]
            ELSE @]
    ELSE d
WrittenBack(d, result, st, state, now) ==
    IF result.attributes # st.attributes
    THEN reevaluateUserMembershipsAfterAttributeChange(
            [d EXCEPT !.users =
                IF state.userId \in DOMAIN @
                THEN [@ EXCEPT ![state.userId].attributes = result.attributes]
                ELSE @],
            state.userId,
            "user attributes changed and no longer matches campaign criteria",
            "", now)
    ELSE d

\* after executeGeneratorToIndex returned result
GeneratorRan(d, result, st, state, now, transportOk) ==
    IF result.threw THEN Failed(d, state, "generator threw", <<>>)
    ELSE AttributesWritten(WrittenBack(d, result, st, state, now),
                           result, st, state, now, transportOk)

\* after the INSERT INTO execution_history, hist its outcome; d the database before it
HistoryRecorded(d, hist, st, state, now, transportOk) ==
    IF ~hist.ok THEN Failed(d, state, "execution_history insert failed", <<>>)
    ELSE GeneratorRan(hist.db,
            executeGeneratorToIndex(st.flow, st.attributeStates, st.stepIndex),
            st, state, now, transportOk)

\* d is the transaction's database, st what setupExecutionState returned
processExecution(d, st, state, now, transportOk) ==
    IF ~st.ok THEN Failed(d, state, st.error, <<>>)
    ELSE IF st.behavior = "dynamic" /\ st.stepIndex # 0
            /\ ~evaluateUserCampaign(d, state.userId, state.campaignId)
    THEN [db |-> killExecution(d, state.userId, state.campaignId,
                               "User no longer matches campaign criteria"),
          emails |-> <<>>, ok |-> TRUE]
    ELSE HistoryRecorded(d, InsertHistory(d, Key(state), st.stepIndex, st.attributes),
                         st, state, now, transportOk)

\* the WHERE clause of the claim
IsDueWhateverStatus(row, now) == row.sleepUntil <= now
IsDue(row, now) ==
    /\ row.status \in {"sleeping", "pending"}
    /\ row.sleepUntil <= now

\* the rows runExecutions selects FOR UPDATE
ReadyStatesEarly(d, now) ==
    {[userId |-> k[1], campaignId |-> k[2], status |-> d.executions[k].status,
      sleepUntil |-> d.executions[k].sleepUntil] :
        k \in {x \in DOMAIN d.executions :
                  d.executions[x].status \in {"sleeping", "pending"}}}
ReadyStates(d, now) ==
    {[userId |-> k[1], campaignId |-> k[2], status |-> d.executions[k].status,
      sleepUntil |-> d.executions[k].sleepUntil] :
        k \in {x \in DOMAIN d.executions : IsDue(d.executions[x], now)}}

\* UPDATE executions SET status = 'running' for the selected rows
MarkRunningSkipped(d, states) == d
MarkRunning(d, states) ==
    [d EXCEPT !.executions =
        [k \in DOMAIN @ |->
            IF k \in {Key(s) : s \in states} THEN [@[k] EXCEPT !.status = "running"]
            ELSE @[k]]]

-----------------------------------------------------------------------------
(* The state machine *)

IdleTick ==
    [pc |-> "idle", now |-> 0, states |-> {}, todo |-> {}, work |-> EmptyDb,
     ran |-> {}]

\* the database after a first configuration: three segments, one template and the
\* email provider, no campaign and no user yet
BaseDb ==
    createSegment(
        createSegment(
            createSegment(
                [EmptyDb EXCEPT !.templates = Put(EmptyTable, "welcome", [subject |-> "v1"]),
                         !.emailProvider = TRUE],
                "active", SqlActive, 0).db,
            "buyers", SqlPurchased, 0).db,
        "engaged", SqlAnyEvent, 0).db

\* no createUser transaction is open
NoTransaction == [pc |-> "idle", userId |-> "", snapshot |-> EmptyDb, work |-> EmptyDb]

\* no config was pushed yet
NoPush == [seq |-> 0, config |-> NoConfig, lastConfig |-> NoConfig, result |-> ""]

Init ==
    /\ db = BaseDb
    /\ sent = <<>>
    /\ clock = 0
    /\ tick = [t \in TickIds |-> IdleTick]
    /\ requests = 0
    /\ push = NoPush
    /\ inflight = NoTransaction

NoOpenTick == \A t \in TickIds : tick[t].pc # "open"

\* POST /api/user/:id
CreateUser(u, active) ==
    /\ NoOpenTick
    /\ requests < MaxRequests
    /\ requests' = requests + 1
    /\ \E r \in {createUser(db, u, [email |-> u, active |-> active], clock)} :
          r.ok /\ db' = r.db
    /\ UNCHANGED <<sent, clock, tick, push, inflight>>

\* attribute values are JSON values: strings and booleans stand for themselves and
\* the number 42 is written as this token, which keeps the values of a field comparable
JsonNumber == "42 (number)"

\* typeof v === "string"
IsJsonString(v) == v # JsonNumber

\* the bodies of PATCH /api/user/:id: UpdateUserSchema takes any record
UserPatches == {[active |-> TRUE], [active |-> FALSE], [email |-> JsonNumber]}

\* PATCH /api/user/:id
UpdateUser(u, partial) ==
    /\ NoOpenTick
    /\ requests < MaxRequests
    /\ requests' = requests + 1
    /\ \E r \in {updateUser(db, u, partial, clock)} :
          r.ok /\ db' = r.db
    /\ UNCHANGED <<sent, clock, tick, push, inflight>>

\* DELETE /api/user/:id
DeleteUser(u) ==
    /\ NoOpenTick
    /\ requests < MaxRequests
    /\ requests' = requests + 1
    /\ u \in DOMAIN db.users
    /\ db' = deleteUser(db, u).db
    /\ UNCHANGED <<sent, clock, tick, push, inflight>>

\* POST /api/user/:id/event/:name
EmitEvent(u, name, mail) ==
    /\ NoOpenTick
    /\ requests < MaxRequests
    /\ requests' = requests + 1
    /\ Cardinality(db.events) < MaxEvents
    /\ \E r \in emitEvent(db, u, name, clock, mail) :
          /\ r.ok
          /\ db' = r.db
          /\ Len(sent) + Len(r.emails) <= MaxSent
          /\ sent' = sent \o r.emails
    /\ UNCHANGED <<clock, tick, push, inflight>>

\* PATCH /api/segment/:id
UpdateSegment(s, sql) ==
    /\ NoOpenTick
    /\ requests < MaxRequests
    /\ requests' = requests + 1
    /\ \E r \in {updateSegment(db, s, sql, clock)} :
          r.ok /\ db' = r.db
    /\ UNCHANGED <<sent, clock, tick, push, inflight>>

\* POST /api/segment/:id
CreateSegment(s, sql) ==
    /\ NoOpenTick
    /\ requests < MaxRequests
    /\ requests' = requests + 1
    /\ \E r \in {createSegment(db, s, sql, clock)} :
          r.ok /\ db' = r.db
    /\ UNCHANGED <<sent, clock, tick, push, inflight>>

\* DELETE /api/segment/:id
DeleteSegment(s) ==
    /\ NoOpenTick
    /\ requests < MaxRequests
    /\ requests' = requests + 1
    /\ s \in DOMAIN db.segments
    /\ db' = deleteSegment(db, s).db
    /\ UNCHANGED <<sent, clock, tick, push, inflight>>

CampaignRequests ==
    {[id |-> "c1", flow |-> "drip", behavior |-> "dynamic",
      segments |-> <<"active">>, hasExclude |-> FALSE, excludeSegments |-> <<>>],
     [id |-> "c2", flow |-> "optout", behavior |-> "static",
      segments |-> <<"active">>, hasExclude |-> TRUE, excludeSegments |-> <<"buyers">>],
     [id |-> "c2", flow |-> "welcome", behavior |-> "dynamic",
      segments |-> <<>>, hasExclude |-> FALSE, excludeSegments |-> <<>>],
     [id |-> "c2", flow |-> "sms", behavior |-> "dynamic",
      segments |-> <<"active", "nope">>, hasExclude |-> FALSE, excludeSegments |-> <<>>]}

\* POST /api/campaign/:id
CreateCampaign(req) ==
    /\ NoOpenTick
    /\ requests < MaxRequests
    /\ requests' = requests + 1
    /\ req.id \notin DOMAIN db.campaigns
    /\ db' = createCampaign(db, req, clock).db
    /\ UNCHANGED <<sent, clock, tick, push, inflight>>

\* DELETE /api/campaign/:id
DeleteCampaign(c) ==
    /\ NoOpenTick
    /\ requests < MaxRequests
    /\ requests' = requests + 1
    /\ c \in DOMAIN db.campaigns
    /\ db' = deleteCampaign(db, c).db
    /\ UNCHANGED <<sent, clock, tick, push, inflight>>

\* time passes
Advance ==
    /\ clock < MaxClock
    /\ clock' = clock + 1
    /\ UNCHANGED <<db, sent, tick, requests, push, inflight>>

\* SELECT ... FOR UPDATE waits while another transaction holds the lock of a row
RowLocksIgnored(t) == TRUE
RowLocksFree(t) ==
    \A o \in TickIds \ {t} : tick[o].pc # "open"

\* runExecutions takes `now` before it opens its transaction
TickBegin(t) ==
    /\ tick[t].pc = "idle"
    /\ tick' = [tick EXCEPT ![t] = [IdleTick EXCEPT !.pc = "started", !.now = clock]]
    /\ UNCHANGED <<db, sent, clock, requests, push, inflight>>

\* the locking SELECT and the UPDATE to running; with nothing due the transaction
\* has nothing more to do and commits
TickClaim(t) ==
    /\ tick[t].pc = "started"
    /\ RowLocksFree(t)
    /\ \E states \in {ReadyStates(db, tick[t].now)} :
          tick' = [tick EXCEPT ![t] =
                     IF states = {}
                     THEN IdleTick
                     ELSE [@ EXCEPT !.pc = "open", !.states = states,
                                    !.todo = states,
                                    !.work = MarkRunning(db, states)]]
    /\ UNCHANGED <<db, sent, clock, requests, push, inflight>>

\* one processExecution of the Promise.all; every row has read its campaign, user
\* and history before the first of them writes
TickStep(t, state, transportOk) ==
    /\ tick[t].pc = "open"
    /\ state \in tick[t].todo
    /\ \E st \in {setupExecutionState(db, state)} :
          \E r \in {processExecution(tick[t].work, st, state, clock, transportOk)} :
             /\ Len(sent) + Len(r.emails) <= MaxSent
             /\ sent' = sent \o r.emails
             /\ tick' = [tick EXCEPT ![t].work = r.db,
                                     ![t].todo = @ \ {state},
                                     ![t].ran = @ \cup
                                        {<<state.userId, state.campaignId, st.stepIndex>>}]
    /\ UNCHANGED <<db, clock, requests, push, inflight>>

\* a COMMIT that does not wait for the processExecution of every claimed row
TickCommitEarly(t) ==
    /\ tick[t].pc = "open"
    /\ db' = tick[t].work
    /\ tick' = [tick EXCEPT ![t] =
                  IF \E o \in TickIds \ {t} : tick[o].pc # "idle"
                  THEN [IdleTick EXCEPT !.ran = tick[t].ran]
                  ELSE IdleTick]
    /\ UNCHANGED <<sent, clock, requests, push, inflight>>

\* COMMIT; the steps the transaction ran stay on record while another daemon's
\* runExecutions is under way
TickCommit(t) ==
    /\ tick[t].pc = "open"
    /\ tick[t].todo = {}
    /\ db' = tick[t].work
    /\ tick' = [tick EXCEPT ![t] =
                  IF \E o \in TickIds \ {t} : tick[o].pc # "idle"
                  THEN [IdleTick EXCEPT !.ran = tick[t].ran]
                  ELSE IdleTick]
    /\ UNCHANGED <<sent, clock, requests, push, inflight>>

\* ROLLBACK: the connection is lost or the process exits in the middle of the tick
TickAbort(t) ==
    /\ tick[t].pc = "open"
    /\ tick' = [tick EXCEPT ![t] = IdleTick]
    /\ UNCHANGED <<db, sent, clock, requests, push, inflight>>

Ingress ==
    \/ \E u \in UserIds, a \in BOOLEAN : CreateUser(u, a)
    \/ \E u \in UserIds, p \in UserPatches : UpdateUser(u, p)
    \/ \E u \in UserIds : DeleteUser(u)
    \/ \E u \in UserIds, n \in EventNames, m \in MailOutcomes : EmitEvent(u, n, m)
    \/ \E s \in {"active"}, q \in {SqlAll, SqlActive} : UpdateSegment(s, q)
    \/ \E s \in {"buyers"} : DeleteSegment(s)
    \/ \E req \in CampaignRequests : CreateCampaign(req)
    \/ \E c \in {"c1", "c2"} : DeleteCampaign(c)

TickRun(t) ==
    \/ TickBegin(t)
    \/ TickClaim(t)
    \/ \E state \in tick[t].todo, ok \in BOOLEAN : TickStep(t, state, ok)
    \/ TickCommit(t)

Tick(t) ==
    \/ TickRun(t)
    \/ TickAbort(t)

\* one server process: the ingress handlers and one execution daemon
Next ==
    \/ Ingress
    \/ Tick("t1")
    \/ Advance

Spec == Init /\ [][Next]_vars

\* two execution daemons on one database, two users in a dynamic drip campaign
TwoDaemonsDb ==
    createCampaign(
        createUser(
            createUser(BaseDb, "u1", [email |-> "u1", active |-> TRUE], 0).db,
            "u2", [email |-> "u2", active |-> TRUE], 0).db,
                       [id |-> "c1", flow |-> "drip", behavior |-> "dynamic",
                            segments |-> <<"active">>, hasExclude |-> FALSE,
                            excludeSegments |-> <<>>], 0).db

InitTicks ==
    /\ db = TwoDaemonsDb
    /\ sent = <<>>
    /\ clock = 0
    /\ tick = [t \in TickIds |-> IdleTick]
    /\ requests = MaxRequests
    /\ push = NoPush
    /\ inflight = NoTransaction

NextTicks ==
    \/ \E t \in TickIds : TickRun(t)
    \/ Advance

SpecTicks == InitTicks /\ [][NextTicks]_vars

-----------------------------------------------------------------------------
(* Configuration pushes on an empty database *)

Postmark ==
    [config |-> <<(<<"name", "postmark">>), (<<"apiKey", "key">>)>>,
     fromAddress |-> "hello@segflow.io"]

\* the keys in the order of EmailProviderSchema, which the validation gives them
Ses ==
    [config |-> <<(<<"name", "ses">>), (<<"accessKeyId", "id">>),
                  (<<"secretAccessKey", "secret">>), (<<"region", "eu">>)>>,
     fromAddress |-> "hello@segflow.io"]

ConfigBase(provider) ==
    [templates |-> <<(<<"welcome", [subject |-> "v1"]>>)>>,
     transactions |-> <<>>,
     segments |-> <<(<<"active", [evaluator |-> SqlActive]>>)>>,
     campaigns |->
        <<(<<"c1", [flow |-> "drip", behavior |-> "dynamic",
                    segments |-> <<"active">>, hasExclude |-> FALSE,
                    excludeSegments |-> <<>>]>>)>>,
     emailProvider |-> provider]

\* the base configuration; the same with an SES provider; the base with a changed
\* and a new template, a transaction and a changed segment; the base with a new
\* template and a changed campaign; the base without its campaign
PushConfigs ==
    {ConfigBase(Postmark),
     ConfigBase(Ses),
     [ConfigBase(Postmark) EXCEPT
        !.templates = <<(<<"welcome", [subject |-> "v2"]>>),
                        (<<"promo", [subject |-> "v1"]>>)>>,
        !.transactions = <<(<<"reset", [event |-> "purchase", subject |-> "v1"]>>)>>,
        !.segments = <<(<<"active", [evaluator |-> SqlAll]>>)>>],
     [ConfigBase(Postmark) EXCEPT
        !.templates = <<(<<"welcome", [subject |-> "v1"]>>),
                        (<<"promo", [subject |-> "v1"]>>)>>,
        !.campaigns = <<(<<"c1", [flow |-> "welcome", behavior |-> "dynamic",
                                  segments |-> <<"active">>, hasExclude |-> FALSE,
                                  excludeSegments |-> <<>>]>>)>>],
     [ConfigBase(Postmark) EXCEPT !.campaigns = <<>>]}

\* POST /api/config
PushConfig(config) ==
    /\ NoOpenTick
    /\ requests < MaxRequests
    /\ requests' = requests + 1
    /\ \E lastConfig \in LastConfigs(db) :
          \E r \in {createConfig(db, lastConfig, config, clock)} :
             /\ db' = r.db
             /\ push' = [seq |-> requests + 1, config |-> config,
                         lastConfig |-> lastConfig,
                         result |-> IF ~r.ok THEN "error"
                                    ELSE IF r.noChanges THEN "no changes"
                                    ELSE "accepted"]
    /\ UNCHANGED <<sent, clock, tick, inflight>>

InitPush ==
    /\ db = EmptyDb
    /\ sent = <<>>
    /\ clock = 0
    /\ tick = [t \in TickIds |-> IdleTick]
    /\ requests = 0
    /\ push = NoPush
    /\ inflight = NoTransaction

NextPush ==
    \/ \E config \in PushConfigs : PushConfig(config)
    \/ \E u \in UserIds, a \in BOOLEAN : CreateUser(u, a)
    \/ \E c \in {"c1"} : DeleteCampaign(c)
    \/ Tick("t1")
    \/ Advance

SpecPush == InitPush /\ [][NextPush]_vars

-----------------------------------------------------------------------------
(* Events with transactional emails *)

\* two transactions on the same event, with or without an email provider
EventsDb ==
    [BaseDb EXCEPT !.transactions =
        Put(Put(EmptyTable, "reset", [event |-> "purchase", subject |-> "v1"]),
            "receipt", [event |-> "purchase", subject |-> "v1"])]

InitEvents ==
    /\ \E provider \in BOOLEAN : db = [EventsDb EXCEPT !.emailProvider = provider]
    /\ sent = <<>>
    /\ clock = 0
    /\ tick = [t \in TickIds |-> IdleTick]
    /\ requests = 0
    /\ push = NoPush
    /\ inflight = NoTransaction

\* the dynamic drip campaign c1 and a static campaign whose flow ends with a return
EventCampaignRequests ==
    {r \in CampaignRequests : r.id = "c1"}
       \cup {[id |-> "c2", flow |-> "farewell", behavior |-> "static",
               segments |-> <<"active">>, hasExclude |-> FALSE,
               excludeSegments |-> <<>>]}

NextEvents ==
    \/ \E u \in UserIds, a \in BOOLEAN : CreateUser(u, a)
    \/ \E u \in UserIds, p \in UserPatches : UpdateUser(u, p)
    \/ \E u \in UserIds, n \in {"purchase", "visit"}, m \in MailOutcomes :
          EmitEvent(u, n, m)
    \/ \E s \in {"active", "buyers"}, q \in {SqlActive, SqlPurchased, SqlAnyEvent} :
          UpdateSegment(s, q)
    \/ \E req \in EventCampaignRequests : CreateCampaign(req)
    \/ Tick("t1")
    \/ Advance

SpecEvents == InitEvents /\ [][NextEvents]_vars

-----------------------------------------------------------------------------
(* Campaigns whose flows write to the attributes of their user, and one   *)
(* whose flow waits for an hour and a half                               *)

WriterCampaignRequests ==
    {[id |-> "c1", flow |-> "mark-a", behavior |-> "static",
      segments |-> <<"active">>, hasExclude |-> FALSE, excludeSegments |-> <<>>],
     [id |-> "c2", flow |-> "mark-b", behavior |-> "static",
      segments |-> <<"active">>, hasExclude |-> FALSE, excludeSegments |-> <<>>],
     [id |-> "c2", flow |-> "nap", behavior |-> "static",
      segments |-> <<"active">>, hasExclude |-> FALSE, excludeSegments |-> <<>>]}

NextWriters ==
    \/ \E u \in UserIds, a \in BOOLEAN : CreateUser(u, a)
    \/ \E u \in UserIds, p \in UserPatches : UpdateUser(u, p)
    \/ \E req \in WriterCampaignRequests : CreateCampaign(req)
    \/ Tick("t1")
    \/ Advance

SpecWriters == Init /\ [][NextWriters]_vars

-----------------------------------------------------------------------------
(* A createUser transaction that overlaps other requests.  The transaction *)
(* reads its snapshot of the database and keeps its rows to itself until   *)
(* COMMIT; createCampaign, a run of autocommitted statements, may run      *)
(* between the two.                                                        *)

\* COMMIT: the rows the transaction inserted (those of work that its snapshot did
\* not have) join the database as it is by then
Committed(current, snapshot, work) ==
    [current EXCEPT
        !.users = [k \in DOMAIN @ \cup (DOMAIN work.users \ DOMAIN snapshot.users) |->
                      IF k \in DOMAIN @ THEN @[k] ELSE work.users[k]],
        !.segmentUsers = @ \cup (work.segmentUsers \ snapshot.segmentUsers),
        !.campaignUsers = @ \cup (work.campaignUsers \ snapshot.campaignUsers),
        !.executions =
            [k \in DOMAIN @ \cup (DOMAIN work.executions \ DOMAIN snapshot.executions) |->
                IF k \in DOMAIN @ THEN @[k] ELSE work.executions[k]]]

\* POST /api/user/:id up to the last statement of its transaction
CreateUserBegin(u, active) ==
    /\ NoOpenTick
    /\ inflight.pc = "idle"
    /\ requests < MaxRequests
    /\ requests' = requests + 1
    /\ \E r \in {createUser(db, u, [email |-> u, active |-> active], clock)} :
          /\ r.ok
          /\ inflight' = [pc |-> "open", userId |-> u, snapshot |-> db, work |-> r.db]
    /\ UNCHANGED <<db, sent, clock, tick, push>>

\* the COMMIT of that transaction
CreateUserCommit ==
    /\ inflight.pc = "open"
    /\ db' = Committed(db, inflight.snapshot, inflight.work)
    /\ inflight' = NoTransaction
    /\ UNCHANGED <<sent, clock, tick, requests, push>>

\* createCampaign waits for no lock of the open transaction and runs beside it; the
\* other requests and the tick run when no createUser is under way
NextOverlap ==
    \/ \E u \in UserIds, a \in BOOLEAN : CreateUserBegin(u, a)
    \/ CreateUserCommit
    \/ \E req \in {r \in CampaignRequests : r.segments = <<"active">>} :
          CreateCampaign(req)
    \/ inflight.pc = "idle" /\ \E u \in UserIds, p \in UserPatches : UpdateUser(u, p)
    \/ inflight.pc = "idle" /\ \E c \in {"c1", "c2"} : DeleteCampaign(c)
    \/ inflight.pc = "idle" /\ Tick("t1")
    \/ Advance

SpecOverlap == Init /\ [][NextOverlap]_vars

-----------------------------------------------------------------------------
(* Configuration pushes that take away what an earlier push has created:   *)
(* the base configuration, the base without its campaign, the base without *)
(* its campaign and without the segment the campaign selects from          *)

RemovalConfigs ==
    {ConfigBase(Postmark),
     [ConfigBase(Postmark) EXCEPT !.campaigns = <<>>],
     [ConfigBase(Postmark) EXCEPT !.campaigns = <<>>, !.segments = <<>>]}

NextRemoval ==
    \/ \E config \in RemovalConfigs : PushConfig(config)
    \/ \E u \in UserIds, a \in BOOLEAN : CreateUser(u, a)
    \/ Tick("t1")
    \/ Advance

SpecRemoval == InitPush /\ [][NextRemoval]_vars

-----------------------------------------------------------------------------
(* Campaigns whose flows cannot be carried out: one throws after its first  *)
(* email, one yields nothing, one yields a command of an unknown type, one  *)
(* an SMS, one an email of a template that is not there; and a dynamic      *)
(* campaign whose flow takes its user out of the campaign's segment         *)

FailureCampaignRequests ==
    {[id |-> "c1", flow |-> f[1], behavior |-> f[2],
      segments |-> <<"active">>, hasExclude |-> FALSE, excludeSegments |-> <<>>] :
        f \in {<<"boom", "static">>, <<"blank", "dynamic">>, <<"fax", "static">>,
               <<"sms", "dynamic">>}}
       \cup {[id |-> "c2", flow |-> f[1], behavior |-> f[2],
               segments |-> <<"active">>, hasExclude |-> FALSE,
               excludeSegments |-> <<>>] :
                 f \in {<<"optout", "static">>, <<"optout", "dynamic">>,
                        <<"welcome", "dynamic">>}}

NextFailures ==
    \/ \E u \in UserIds, a \in BOOLEAN : CreateUser(u, a)
    \/ \E u \in UserIds, p \in UserPatches : UpdateUser(u, p)
    \/ \E req \in FailureCampaignRequests : CreateCampaign(req)
    \/ Tick("t1")
    \/ Advance

SpecFailures == Init /\ [][NextFailures]_vars

-----------------------------------------------------------------------------
(* Campaigns whose flows take several ticks while the user's attributes    *)
(* change between the steps: one branches on an attribute before its first *)
(* yield, one writes an attribute, one waits, one returns a command        *)

ReplayCampaignRequests ==
    {[id |-> "c1", flow |-> f[1], behavior |-> f[2],
      segments |-> <<"active">>, hasExclude |-> FALSE, excludeSegments |-> <<>>] :
        f \in {<<"fork", "static">>, <<"fork", "dynamic">>, <<"optout", "static">>,
               <<"drip", "static">>, <<"adieu", "static">>}}

NextReplay ==
    \/ \E u \in UserIds, a \in BOOLEAN : CreateUser(u, a)
    \/ \E u \in UserIds, p \in UserPatches : UpdateUser(u, p)
    \/ \E req \in ReplayCampaignRequests : CreateCampaign(req)
    \/ Tick("t1")
    \/ Advance

SpecReplay == Init /\ [][NextReplay]_vars

-----------------------------------------------------------------------------
(* Segments that are created and rewritten over HTTP, with evaluators the  *)
(* trigger extraction can and cannot parse                                *)

SegmentEvaluators == {SqlAll, SqlActive, SqlPurchased, SqlUnparsed}

NextSegments ==
    \/ \E u \in UserIds, a \in BOOLEAN : CreateUser(u, a)
    \/ \E u \in UserIds, p \in UserPatches : UpdateUser(u, p)
    \/ \E u \in UserIds, n \in EventNames, m \in MailOutcomes : EmitEvent(u, n, m)
    \/ \E s \in {"vip"}, q \in SegmentEvaluators : CreateSegment(s, q)
    \/ \E s \in {"active", "vip"}, q \in SegmentEvaluators : UpdateSegment(s, q)
    \/ \E s \in {"vip"} : DeleteSegment(s)
    \/ \E req \in {r \in CampaignRequests : r.id = "c1"} : CreateCampaign(req)
    \/ Tick("t1")
    \/ Advance

SpecSegments == Init /\ [][NextSegments]_vars

-----------------------------------------------------------------------------
(* One user in one static campaign, a daemon that keeps ticking and an     *)
(* email provider that takes every email.  The flows end by falling off    *)
(* their end or by a return statement, with or without a value.            *)

FairFlows == {"welcome", "drip", "bye", "adieu"}

FairDb(flow) ==
    createCampaign(
        createUser(BaseDb, "u1", [email |-> "u1", active |-> TRUE], 0).db,
        [id |-> "c1", flow |-> flow, behavior |-> "static",
         segments |-> <<"active">>, hasExclude |-> FALSE, excludeSegments |-> <<>>],
        0).db

InitFair ==
    /\ \E flow \in FairFlows : db = FairDb(flow)
    /\ sent = <<>>
    /\ clock = 0
    /\ tick = [t \in TickIds |-> IdleTick]
    /\ requests = 0
    /\ push = NoPush
    /\ inflight = NoTransaction

\* a runExecutions whose emails the provider takes and whose transaction commits
TickDelivers(t) ==
    \/ TickBegin(t)
    \/ TickClaim(t)
    \/ \E state \in tick[t].todo : TickStep(t, state, TRUE)
    \/ TickCommit(t)

\* the daemon ticks every 100 ms and the clock counts seconds: a second passes when
\* the daemon has nothing due, so that a wait that has begun ends before MaxClock
AdvanceBetweenTicks ==
    /\ NoOpenTick
    /\ ReadyStates(db, clock) = {}
    /\ Advance

NextFair ==
    \/ \E u \in UserIds, p \in UserPatches : UpdateUser(u, p)
    \/ TickDelivers("t1")
    \/ AdvanceBetweenTicks

\* the guard of the tick's step: a claimed row is left and the log has room for
\* what its processExecution hands to the provider
StepReady(t) ==
    /\ tick[t].pc = "open"
    /\ \E state \in tick[t].todo :
          Len(sent) + Len(processExecution(tick[t].work, setupExecutionState(db, state),
                                           state, clock, TRUE).emails) <= MaxSent

\* executionDaemon re-arms itself after every runExecutions and every await of a
\* tick returns: weak
\* fairness of each step of the tick, that of the step of a row written with its
\* guard StepReady in the place of ENABLED
SpecFair ==
    /\ InitFair
    /\ [][NextFair]_vars
    /\ WF_vars(TickBegin("t1"))
    /\ WF_vars(TickClaim("t1"))
    /\ WF_vars(TickCommit("t1"))
    /\ WF_vars(AdvanceBetweenTicks)
    /\ \/ []<>(~StepReady("t1"))
       \/ []<><<\E state \in tick["t1"].todo : TickStep("t1", state, TRUE)>>_vars

-----------------------------------------------------------------------------
(* Properties *)

Terminal == {"completed", "failed", "terminated"}

OpenTicks == {t \in TickIds : tick[t].pc = "open"}

\* the database as the running transaction sees it, or the committed one
CurrentDb ==
    IF OpenTicks = {} THEN db ELSE tick[CHOOSE t \in OpenTicks : TRUE].work

SentFor(k, log) ==
    {i \in 1..Len(log) : log[i].userId = k[1] /\ log[i].campaignId = k[2]}

Pairs == {<<u, c>> : u \in {"u1", "u2"}, c \in {"c1", "c2"}}

\* C1: of two runExecutions transactions running at the same time, no step of a
\* (user, campaign) is executed by both, the second one to claim finds the steps
\* of the first committed, every row a transaction claimed is advanced by it by
\* one step, and no step's email leaves twice.
C1_EachDueRowAdvancedByOneTick ==
    /\ \A t \in TickIds, o \in TickIds :
          t # o => tick[t].ran \cap tick[o].ran = {}
    /\ \A t \in TickIds :
          tick[t].pc = "open" =>
                /\ Cardinality(tick[t].ran) = Cardinality(tick[t].states \ tick[t].todo)
                /\ \A s \in tick[t].states \ tick[t].todo :
                      \E r \in tick[t].ran : r[1] = s.userId /\ r[2] = s.campaignId
                /\ \A r \in tick[t].ran :
                      ~\E h \in db.executionHistory :
                          h.userId = r[1] /\ h.campaignId = r[2] /\ h.stepIndex = r[3]
    /\ \A i \in 1..Len(sent), j \in 1..Len(sent) :
          (i # j /\ sent[i].userId = sent[j].userId
                 /\ sent[i].campaignId = sent[j].campaignId)
             => sent[i].stepIndex # sent[j].stepIndex

\* one daemon has executed a step in its open transaction while the other has
\* begun its runExecutions and waits for the row locks
C1_Witness ==
    \E t \in TickIds, o \in TickIds :
        /\ t # o
        /\ tick[t].pc = "open" /\ tick[t].ran # {}
        /\ tick[o].pc = "started"
        /\ ReadyStates(db, tick[o].now) # {}

\* C2: the emails of one (user, campaign) leave in increasing step_index order,
\* each step's email at most once, rolled back ticks included.
C2_EmailsInStepOrderOnce ==
    \A i \in 1..Len(sent), j \in 1..Len(sent) :
        (i < j /\ sent[i].userId = sent[j].userId
               /\ sent[i].campaignId = sent[j].campaignId)
           => sent[i].stepIndex < sent[j].stepIndex

NoLongerMatches ==
    {"User was updated and no longer matches campaign criteria",
     "user attributes changed and no longer matches campaign criteria",
     "User no longer matches campaign criteria"}

\* C3: when updateUser takes a user with a sleeping Execution out of a dynamic
\* campaign, the membership row is gone and the Execution row is still there,
\* terminated, with an error that says 'no longer matches'.
C3_DynamicExitTerminates ==
    [][\A u \in UserIds, a \in BOOLEAN :
         UpdateUser(u, [active |-> a]) =>
            \A c \in DOMAIN db.campaigns :
               (/\ db.campaigns[c].behavior = "dynamic"
                /\ <<u, c>> \in db.campaignUsers
                /\ <<u, c>> \in DOMAIN db.executions
                /\ db.executions[<<u, c>>].status = "sleeping"
                /\ ~evaluateUserCampaign(db', u, c))
               => /\ <<u, c>> \notin db'.campaignUsers
                  /\ <<u, c>> \in DOMAIN db'.executions
                  /\ db'.executions[<<u, c>>].status = "terminated"
                  /\ db'.executions[<<u, c>>].error \in NoLongerMatches]_vars

\* u is in every include segment of c and in no exclude segment of c
Matches(d, u, c) ==
    /\ \A s \in IncludeOf(d, c) : <<u, s>> \in d.segmentUsers
    /\ \A s \in ExcludeOf(d, c) : <<u, s>> \notin d.segmentUsers

\* C4: in every committed state, a user is a member of a dynamic campaign (with
\* its non-empty include list) exactly when the user is in all its include
\* segments and in none of its exclude segments.
C4_DynamicMembershipIsMatch ==
    \A c \in DOMAIN db.campaigns, u \in DOMAIN db.users :
        (db.campaigns[c].behavior = "dynamic" /\ IncludeOf(db, c) # {})
           => (<<u, c>> \in db.campaignUsers <=> Matches(db, u, c))

\* C5: a membership of a static campaign leaves the committed database only with
\* its campaign or its user.
C5_StaticMembershipStays ==
    [][\A k \in db.campaignUsers :
         (/\ k[2] \in DOMAIN db.campaigns
          /\ db.campaigns[k[2]].behavior = "static"
          /\ k \notin db'.campaignUsers)
         => (k[2] \notin DOMAIN db'.campaigns \/ k[1] \notin DOMAIN db'.users)]_vars

\* a member of a static campaign who matches it no longer
C5_Witness ==
    \E k \in db.campaignUsers :
        /\ db.campaigns[k[2]].behavior = "static"
        /\ ~Matches(db, k[1], k[2])
        /\ k \in DOMAIN db.executions
        /\ db.executions[k].status = "sleeping"

\* C6: in every committed state the rows of segment_users are the users that the
\* evaluators of the segments select.
C6_SegmentMembershipIsEvaluator ==
    \A s \in DOMAIN db.segments, u \in DOMAIN db.users :
        <<u, s>> \in db.segmentUsers <=> u \in RunEvaluator(db, db.segments[s].evaluator)

\* C7: in every committed state a membership has its Execution and an Execution
\* that is not terminal has its membership; a terminal Execution stays when its
\* membership is removed.
C7_ExecutionPerMembership ==
    /\ [](/\ \A k \in db.campaignUsers : k \in DOMAIN db.executions
          /\ \A k \in DOMAIN db.executions :
                db.executions[k].status \notin Terminal => k \in db.campaignUsers)
    /\ [][\A k \in DOMAIN db.executions :
            (/\ db.executions[k].status \in Terminal
             /\ k \in db.campaignUsers
             /\ k \notin db'.campaignUsers
             /\ k[2] \in DOMAIN db'.campaigns)
            => k \in DOMAIN db'.executions]_vars

\* the step_index values of the history rows of every (user, campaign) of d are
\* 0..k, one row each
HistoryDense(d) ==
    \A k \in Pairs :
        LET rows == HistoryOf(d, k)
        IN  {h.stepIndex : h \in rows} = 0..(Cardinality(rows) - 1)

\* C8: the history rows of a (user, campaign) carry the step_index values 0..k
\* without gap or duplicate, in the committed database and inside every tick.
C8_HistoryIsPrefix ==
    /\ HistoryDense(db)
    /\ \A t \in OpenTicks : HistoryDense(tick[t].work)

\* an Execution failed at its third step or later
C8_Witness ==
    \E k \in DOMAIN db.executions :
        /\ db.executions[k].status = "failed"
        /\ Cardinality(HistoryOf(db, k)) >= 3

\* the status changes of an Execution row that the life cycle allows
AllowedTransition(from, to, claiming, stepping) ==
    \/ from = to
    \/ from \in {"pending", "sleeping"} /\ to = "running" /\ claiming
    \/ from = "running" /\ to \in {"sleeping", "completed", "failed", "terminated"}
          /\ stepping

\* C9: an Execution row starts pending and its status moves only from pending or
\* sleeping to running when a tick claims it, and from running to sleeping,
\* completed, failed or terminated when the tick executes its step (a rollback
\* takes the tick's changes back).
C9_StatusLifeCycle ==
    [][(\E t \in TickIds : TickAbort(t)) \/
       LET before == CurrentDb.executions
           after == CurrentDb'.executions
           claiming == \E t \in TickIds : tick[t].pc = "started" /\ tick'[t].pc = "open"
           stepping == \E t \in TickIds : tick[t].pc = "open" /\ tick'[t].pc = "open"
       IN  \A k \in DOMAIN after :
              IF k \in DOMAIN before
              THEN AllowedTransition(before[k].status, after[k].status,
                                     claiming, stepping)
              ELSE after[k].status = "pending"]_vars

\* a tick holds a row it has marked running and a row whose step it has executed
C9_Witness ==
    \E t \in OpenTicks : \E k1 \in DOMAIN tick[t].work.executions,
                            k2 \in DOMAIN tick[t].work.executions :
        /\ tick[t].work.executions[k1].status = "running"
        /\ <<k2[1], k2[2], 0>> \in tick[t].ran
        /\ tick[t].work.executions[k2].status \in {"sleeping", "failed"}
        /\ \E k3 \in DOMAIN db.executions : db.executions[k3].status = "pending"

\* C10: an Execution row that is completed, failed or terminated in the committed
\* database is not claimed by a tick and, for as long as the row exists, keeps its
\* status, sleep_until and error, gets no history row and no email.
C10_TerminalStaysTerminal ==
    [][\A k \in DOMAIN db.executions :
         db.executions[k].status \in Terminal =>
            /\ \A t \in TickIds : k \notin {Key(x) : x \in tick'[t].states}
            /\ \A t \in TickIds :
                  (tick'[t].pc = "open" /\ k \in DOMAIN tick'[t].work.executions)
                     => /\ tick'[t].work.executions[k] = db.executions[k]
                        /\ HistoryOf(tick'[t].work, k) = HistoryOf(db, k)
            /\ k \in DOMAIN db'.executions =>
                  /\ db'.executions[k] = db.executions[k]
                  /\ HistoryOf(db', k) = HistoryOf(db, k)
            /\ SentFor(k, sent') = SentFor(k, sent)]_vars

\* a tick has claimed rows at a time when a completed row's sleep_until has passed
C10_Witness ==
    \E k \in DOMAIN db.executions, t \in TickIds :
        /\ db.executions[k].status \in Terminal
        /\ tick[t].pc = "open"
        /\ db.executions[k].sleepUntil <= tick[t].now
        /\ tick[t].ran # {}

\* C11: when a tick claims its rows, a sleeping Execution whose sleep_until is later
\* than the tick's now is left alone and one whose sleep_until is at or before now is
\* claimed; a claimed row is advanced by the transaction: once processed it is no
\* longer running.
C11_SleepingAdvancedWhenDue ==
    /\ [][\A t \in TickIds :
            (tick[t].pc = "started" /\ tick'[t].pc # "started") =>
               \A k \in DOMAIN db.executions :
                  db.executions[k].status = "sleeping" =>
                     ((k \in {Key(s) : s \in tick'[t].states})
                         <=> db.executions[k].sleepUntil <= tick[t].now)]_vars
    /\ [](\A t \in OpenTicks : \A s \in tick[t].states \ tick[t].todo :
             Key(s) \in DOMAIN tick[t].work.executions
                => tick[t].work.executions[Key(s)].status # "running")

\* the drip campaign's wait of one second is over: the row that slept until 1 was
\* claimed by a tick with now = 1 and its second email is sent
C11_Witness ==
    \E t \in OpenTicks : \E s \in tick[t].states \ tick[t].todo :
        /\ s.status = "sleeping"
        /\ s.sleepUntil = 1
        /\ tick[t].now = 1
        /\ \E i \in 1..Len(sent) :
              sent[i].userId = s.userId /\ sent[i].campaignId = s.campaignId
              /\ sent[i].stepIndex = 2

\* the configuration of the Config row that was appended last
LastAccepted(d) ==
    IF d.configs = <<>> THEN NoConfig ELSE d.configs[Len(d.configs)].configJson

\* C12: a push of the configuration that was accepted last computes no operation in
\* any category, answers "no changes", appends no Config row and changes no table.
C12_IdenticalPushIsNoChange ==
    [][(/\ push' # push
        /\ db.configs # <<>>
        /\ StoredConfig(push'.config) = LastAccepted(db))
          => /\ DeltaOperations(analyzeConfig(push'.lastConfig, push'.config)) = <<>>
             /\ push'.result = "no changes"
             /\ db' = db]_vars

\* C13: the Config rows are only appended to, and every push is diffed against the
\* configuration that was accepted last.
C13_LedgerGrowsDiffAgainstNewest ==
    [][/\ Len(db'.configs) >= Len(db.configs)
       /\ SubSeq(db'.configs, 1, Len(db.configs)) = db.configs
       /\ push' # push => push'.lastConfig = LastAccepted(db)]_vars

CategoryRank(category) ==
    CASE category = "template" -> 1
      [] category = "transaction" -> 2
      [] category = "segment" -> 3
      [] category = "campaign" -> 4
      [] category = "emailProvider" -> 5

TypeRank(type) ==
    CASE type = "delete" -> 1
      [] type = "add" -> 2
      [] type = "update" -> 3

\* C14: the operations of a push are applied category by category, templates,
\* transactions, segments, campaigns, emailProvider, and within a category the
\* deletes come before the adds and the adds before the updates.
C14_OperationsInFixedOrder ==
    [][push' # push =>
         \A i, j \in DOMAIN DeltaOperations(
                        analyzeConfig(push'.lastConfig, push'.config)) :
            i < j =>
               \E a \in {DeltaOperations(
                            analyzeConfig(push'.lastConfig, push'.config))[i]} :
               \E b \in {DeltaOperations(
                            analyzeConfig(push'.lastConfig, push'.config))[j]} :
                  \/ CategoryRank(a.category) < CategoryRank(b.category)
                  \/ /\ a.category = b.category
                     /\ TypeRank(a.type) <= TypeRank(b.type)]_vars

\* C15: a push with a campaign that the configuration accepted last has under the
\* same id with another flow, behavior, include or exclude list is answered with an
\* error and leaves every table and the Config rows as they were.
C15_CampaignUpdateRejected ==
    [][(/\ push' # push
        /\ \E p \in KeySet(push'.config.campaigns) \cap KeySet(LastAccepted(db).campaigns) :
              Differs("campaign", Get(LastAccepted(db).campaigns, p),
                      Get(push'.config.campaigns, p)))
          => /\ push'.result = "error"
             /\ db' = db]_vars

\* C16: once a campaign is deleted, by deleteCampaign or by a push that removes it,
\* no CampaignMembership, Execution or ExecutionHistoryStep row of it remains, in
\* the committed database or in a tick's transaction, and no email is sent for it.
C16_DeletedCampaignLeavesNothing ==
    /\ [](\A d \in {db} \cup {tick[t].work : t \in OpenTicks} :
             /\ \A k \in d.campaignUsers : k[2] \in DOMAIN d.campaigns
             /\ \A k \in DOMAIN d.executions : k[2] \in DOMAIN d.campaigns
             /\ \A h \in d.executionHistory : h.campaignId \in DOMAIN d.campaigns)
    /\ [][\A i \in (Len(sent) + 1)..Len(sent') :
             /\ sent'[i].campaignId \in DOMAIN db.campaigns
             /\ sent'[i].campaignId \in DOMAIN db'.campaigns]_vars

\* a push removed campaign c1 after an email of it was sent, a user is there, and
\* a later tick has begun after the wait of the deleted Execution would have ended
C16_Witness ==
    /\ "c1" \notin DOMAIN db.campaigns
    /\ push.result = "accepted"
    /\ push.config.campaigns = <<>>
    /\ DOMAIN db.users # {}
    /\ \E i \in 1..Len(sent) : sent[i].campaignId = "c1"
    /\ tick["t1"].pc = "started"
    /\ tick["t1"].now = 1

\* C17: when createCampaign adds a campaign, its CampaignMembership rows are those
\* of the users in every include segment and in no exclude segment, and each of
\* these users has an Execution of it that is pending with sleep_until = now.
C17_InitialMembershipIsMatch ==
    [][\A req \in CampaignRequests :
          (/\ requests' # requests
           /\ req.id \notin DOMAIN db.campaigns
           /\ createCampaign(db, req, clock).ok
           /\ db' = createCampaign(db, req, clock).db)
             => /\ {k[1] : k \in {x \in db'.campaignUsers : x[2] = req.id}}
                      = {u \in DOMAIN db.users :
                            /\ SeqRange(req.segments) \subseteq SegmentsOfUser(db, u)
                            /\ SeqRange(req.excludeSegments)
                                  \cap SegmentsOfUser(db, u) = {}}
                /\ \A k \in db'.campaignUsers :
                      k[2] = req.id =>
                         /\ k \in DOMAIN db'.executions
                         /\ db'.executions[k].status = "pending"
                         /\ db'.executions[k].sleepUntil = clock]_vars

\* the tables a deleteSegment of segment s must leave alone
OtherThanSegment(d, s) ==
    [d EXCEPT !.segments = Drop(@, {s}),
              !.segmentEventTriggers = {k \in @ : k[1] # s},
              !.segmentUsers = {k \in @ : k[2] # s}]

\* C18: deleteSegment of a segment in the include or exclude list of a campaign
\* throws and changes nothing, so that no step removes a referenced segment; a step
\* that removes a segment removes its triggers and memberships and nothing else.
C18_ReferencedSegmentIsKept ==
    /\ [](\A s \in DOMAIN db.segments :
             (\E c \in DOMAIN db.campaigns :
                 s \in IncludeOf(db, c) \/ s \in ExcludeOf(db, c))
                => deleteSegment(db, s) = [db |-> db, ok |-> FALSE])
    /\ [][\A s \in DOMAIN db.segments :
             s \notin DOMAIN db'.segments =>
                /\ ~\E c \in DOMAIN db.campaigns :
                      s \in IncludeOf(db, c) \/ s \in ExcludeOf(db, c)
                /\ db' = OtherThanSegment(db, s)
                /\ deleteSegment(db, s) = [db |-> db', ok |-> TRUE]]_vars

\* segment buyers has a trigger and a member and is in the exclude list of campaign
\* c2, and one more request has been served
C18_Witness ==
    /\ "c2" \in DOMAIN db.campaigns
    /\ "buyers" \in ExcludeOf(db, "c2")
    /\ <<"u1", "buyers">> \in db.segmentUsers
    /\ \E k \in db.segmentEventTriggers : k[1] = "buyers"
    /\ requests = 4

\* C19: deleteUser of an existing user succeeds, whatever memberships and
\* executions the user has, and leaves no event, SegmentMembership,
\* CampaignMembership, Execution or ExecutionHistoryStep row of the user.
C19_DeleteUserCascades ==
    \A u \in DOMAIN db.users :
       \E r \in {deleteUser(db, u)} :
          /\ r.ok
          /\ u \notin DOMAIN r.db.users
          /\ \A e \in r.db.events : e.userId # u
          /\ \A k \in r.db.segmentUsers : k[1] # u
          /\ \A k \in r.db.campaignUsers : k[1] # u
          /\ \A k \in DOMAIN r.db.executions : k[1] # u
          /\ \A h \in r.db.executionHistory : h.userId # u

\* C20: in the committed database every user's attributes have an email field
\* whose value is a string.
C20_EmailIsAlwaysAString ==
    \A u \in DOMAIN db.users :
       /\ "email" \in DOMAIN db.users[u].attributes
       /\ IsJsonString(db.users[u].attributes.email)


\* the transactional emails of a log
TransactionEmails(log) ==
    SelectSeq(log, LAMBDA m : "transactionId" \in DOMAIN m)

\* C21: whenever the ingestion transaction of an event commits, createEvent succeeds
\* and leaves exactly what the transaction committed, whatever becomes of the
\* transactional email (render error, no provider, transport error); and every
\* transactional email was dispatched for an event row that was already committed
C21_EventSurvivesFailedEmail ==
    /\ \A u \in UserIds, n \in {"purchase", "visit"}, m \in MailOutcomes :
          createEvent(db, u, n, clock).ok =>
             \A r \in emitEvent(db, u, n, clock, m) :
                /\ r.ok
                /\ r.db = createEvent(db, u, n, clock).db
                /\ \E e \in r.db.events : e.userId = u /\ e.name = n
    /\ \A i \in 1..Len(TransactionEmails(sent)) :
          \E e \in db.events : /\ e.id = TransactionEmails(sent)[i].eventId
                               /\ e.userId = TransactionEmails(sent)[i].userId

\* an event with a matching transaction is committed and no email went out
C21_Witness ==
    /\ \E e \in db.events : MatchingTransactions(db, e.name) # {}
    /\ TransactionEmails(sent) = <<>>
    /\ db.emailProvider

\* C22: one emitEvent hands at most one transactional email to the provider: exactly
\* one, of a transaction whose event is the event's name, when some transaction
\* matches and the email is delivered; none when no transaction matches or when the
\* ingestion transaction rolled back
C22_OneTransactionEmailPerEvent ==
    \A u \in UserIds \cup {"nobody"}, n \in {"purchase", "visit"}, m \in MailOutcomes :
       \A r \in emitEvent(db, u, n, clock, m) :
          /\ Len(r.emails) <= 1
          /\ (r.ok /\ MatchingTransactions(db, n) # {} /\ m = "delivered"
                /\ db.emailProvider)
                => /\ Len(r.emails) = 1
                   /\ db.transactions[r.emails[1].transactionId].event = n
                   /\ r.emails[1].userId = u
          /\ (MatchingTransactions(db, n) = {} \/ ~r.ok) => r.emails = <<>>

\* one event with two matching transactions produced one email
C22_Witness ==
    /\ \E e \in db.events : Cardinality(MatchingTransactions(db, e.name)) = 2
    /\ Len(TransactionEmails(sent)) = 1

\* the emails of campaign flows in a log
CampaignEmails(log) ==
    SelectSeq(log, LAMBDA m : "campaignId" \in DOMAIN m)

\* C23: a user who received an email of a dynamic campaign and whose membership of it
\* is gone (no campaign is ever deleted here, so the user was removed from it) gets
\* no new CampaignMembership and no new Execution of that campaign
C23_NoReentryAfterRemoval ==
    [][\A u \in UserIds, c \in DOMAIN db.campaigns :
          (/\ db.campaigns[c].behavior = "dynamic"
           /\ SentFor(<<u, c>>, CampaignEmails(sent)) # {}
           /\ <<u, c>> \notin db.campaignUsers)
             => /\ <<u, c>> \notin db'.campaignUsers
                /\ <<u, c>> \notin DOMAIN db'.executions]_vars

\* SELECT event FROM segment_event_triggers WHERE segment_id = s
TriggersOf(d, s) == {k[2] : k \in {x \in d.segmentEventTriggers : x[1] = s}}

\* C24: the trigger rows of every segment are exactly the event names
\* extractEventTriggersFromSQL finds in the segment's current evaluator, and no
\* trigger row belongs to a segment that is not there
C24_TriggersAreThoseOfTheEvaluator ==
    /\ \A s \in DOMAIN db.segments :
          TriggersOf(db, s) = extractEventTriggersFromSQL(db.segments[s].evaluator)
    /\ \A k \in db.segmentEventTriggers : k[1] \in DOMAIN db.segments

\* updateSegment took the trigger of one segment away and gave one to another
C24_Witness ==
    /\ db.segments["buyers"].evaluator = SqlAnyEvent
    /\ TriggersOf(db, "buyers") = {}
    /\ db.segments["active"].evaluator = SqlPurchased
    /\ TriggersOf(db, "active") = {"purchase"}

\* the yields a program produces, in order: those before its first return or throw
RECURSIVE YieldsOf(_)
YieldsOf(prog) ==
    IF prog = <<>> \/ Head(prog).op \in {"return", "throw"} THEN <<>>
    ELSE IF Head(prog).op = "yield" THEN <<Head(prog).value>> \o YieldsOf(Tail(prog))
    ELSE YieldsOf(Tail(prog))

\* the Execution rows a tick can claim, as runExecutions reads them
Claimable(d) ==
    {[userId |-> k[1], campaignId |-> k[2], status |-> d.executions[k].status,
      sleepUntil |-> d.executions[k].sleepUntil] :
        k \in {x \in DOMAIN d.executions :
                  d.executions[x].status \in {"sleeping", "pending"}}}

\* C25: for every Execution a tick can claim, with k its step index,
\* executeGeneratorToIndex gives done = false and the flow's yield number k when the
\* flow has more than k yields, and done = true and value = undefined when the flow
\* returns before its yield number k
C25_StepFlowResult ==
    \A state \in Claimable(db) :
       \A st \in {setupExecutionState(db, state)} :
          st.ok =>
             \A r \in {executeGeneratorToIndex(st.flow, st.attributeStates, st.stepIndex)} :
                IF Len(YieldsOf(Program(st.flow))) > st.stepIndex
                THEN ~r.done /\ r.value = YieldsOf(Program(st.flow))[st.stepIndex + 1]
                ELSE r.done /\ r.value = Undefined

C27_NoAttributeWriteIsLost ==
    [][\A t \in TickIds, u \in UserIds :
          (/\ TickCommit(t)
           /\ <<u, "c1", 0>> \in tick[t].ran
           /\ <<u, "c2", 0>> \in tick[t].ran
           /\ db.campaigns["c1"].flow = "mark-a"
           /\ db.campaigns["c2"].flow = "mark-b")
             => /\ "a" \in DOMAIN db'.users[u].attributes
                /\ "b" \in DOMAIN db'.users[u].attributes]_vars

\* C28: when a createUser transaction commits, its user has a CampaignMembership and
\* an Execution of every campaign whose segments the user matches, also when a
\* createCampaign ran between the transaction's reads and its commit
C28_MembershipUnderOverlap ==
    [][CreateUserCommit =>
          \A c \in DOMAIN db'.campaigns :
             (IncludeOf(db', c) # {} /\ Matches(db', inflight.userId, c))
                => /\ <<inflight.userId, c>> \in db'.campaignUsers
                   /\ <<inflight.userId, c>> \in DOMAIN db'.executions]_vars

\* the seconds of a duration: seconds + 60 minutes + 3600 hours + 86400 days
\* + 7 * 86400 weeks, its components counted in halves
SumOfComponents(duration) ==
    (duration.seconds + 60 * duration.minutes + 3600 * duration.hours
        + 86400 * duration.days + 7 * 86400 * duration.weeks) \div 2

\* C29: a tick step whose command is a WAIT with a duration, and which neither fails
\* nor terminates its Execution, leaves the Execution sleeping with sleep_until = the
\* time of the step + the sum of the components of the duration
C29_WaitSleepsForTheSumOfTheComponents ==
    [][\A t \in TickIds :
          \A r \in tick'[t].ran \ tick[t].ran :
             \A ys \in {YieldsOf(Program(tick[t].work.campaigns[r[2]].flow))} :
                (/\ r[3] < Len(ys)
                 /\ ys[r[3] + 1].type = "WAIT"
                 /\ ys[r[3] + 1].duration # MissingDuration
                 /\ <<r[1], r[2]>> \in DOMAIN tick'[t].work.executions
                 /\ tick'[t].work.executions[<<r[1], r[2]>>].status
                       \notin {"failed", "terminated"})
                   => /\ tick'[t].work.executions[<<r[1], r[2]>>].status = "sleeping"
                      /\ tick'[t].work.executions[<<r[1], r[2]>>].sleepUntil
                            = clock + SumOfComponents(ys[r[3] + 1].duration)]_vars

\* C30: a tick step whose command is a SEND_EMAIL and which neither fails nor
\* terminates its Execution hands exactly one email to the provider, addressed to the
\* email attribute of the user row, and leaves the Execution sleeping with sleep_until =
\* the time of the step, so that a tick that begins from then on finds the row due
C30_EmailStepSendsOnceAndIsDueAtOnce ==
    [][\A t \in TickIds :
          \A r \in tick'[t].ran \ tick[t].ran :
             \A ys \in {YieldsOf(Program(tick[t].work.campaigns[r[2]].flow))} :
                (/\ r[3] < Len(ys)
                 /\ ys[r[3] + 1].type = "SEND_EMAIL"
                 /\ <<r[1], r[2]>> \in DOMAIN tick'[t].work.executions
                 /\ tick'[t].work.executions[<<r[1], r[2]>>].status
                       \notin {"failed", "terminated"})
                   => /\ tick'[t].work.executions[<<r[1], r[2]>>].status = "sleeping"
                      /\ tick'[t].work.executions[<<r[1], r[2]>>].sleepUntil = clock
                      /\ IsDue(tick'[t].work.executions[<<r[1], r[2]>>], clock')
                      /\ sent' = Append(sent, [to |-> db.users[r[1]].attributes.email,
                                               userId |-> r[1], campaignId |-> r[2],
                                               stepIndex |-> r[3]])]_vars

\* the first email of the drip campaign went out and, the clock still at 0, a second
\* tick has advanced the Execution to the wait that follows
C30_Witness ==
    /\ clock = 0
    /\ NoOpenTick
    /\ <<"u1", "c1">> \in DOMAIN db.executions
    /\ db.campaigns["c1"].flow = "drip"
    /\ db.executions[<<"u1", "c1">>].status = "sleeping"
    /\ db.executions[<<"u1", "c1">>].sleepUntil = 1
    /\ {h.stepIndex : h \in HistoryOf(db, <<"u1", "c1">>)} = {0, 1}
    /\ Len(sent) = 1
    /\ sent[1].to = "u1" /\ sent[1].stepIndex = 0

\* why the step of a row cannot be carried out, "" when it can or when it ends
\* before its command is looked at: result is what the flow gave, wb the database
\* after the attributes were written back
StepFailure(wb, result, st, state, transportOk) ==
    IF result.threw THEN "generator threw"
    ELSE IF result.value = Undefined
    THEN IF result.done THEN "" ELSE "Generator yielded undefined"
    ELSE IF st.behavior = "dynamic"
            /\ ~evaluateUserCampaign(wb, state.userId, state.campaignId)
    THEN ""
    ELSE IF result.value.type = "SEND_SMS" THEN "SMS sending not implemented"
    ELSE IF result.value.type = "SEND_EMAIL"
    THEN IF result.value.templateId \notin DOMAIN wb.templates THEN "template not found"
         ELSE IF ~wb.emailProvider THEN "No email provider configured"
         ELSE IF ~transportOk THEN "Postmark API error"
         ELSE ""
    ELSE IF result.value.type = "WAIT" THEN ""
    ELSE "Unknown command type"

C32_DynamicMismatchTerminatesInstead ==
    [][\A t \in TickIds : \A state \in tick[t].todo \ tick'[t].todo :
          \A st \in {setupExecutionState(db, state)} :
          \A hist \in {InsertHistory(tick[t].work, Key(state), st.stepIndex,
                                     st.attributes)} :
             (/\ tick'[t].pc = "open"
              /\ st.ok
              /\ st.behavior = "dynamic"
              /\ hist.ok
              /\ ~(st.stepIndex # 0
                   /\ ~evaluateUserCampaign(tick[t].work, state.userId,
                                            state.campaignId)))
                => \A result \in {executeGeneratorToIndex(st.flow, st.attributeStates,
                                                         st.stepIndex)} :
                      (/\ ~result.threw
                       /\ result.value # Undefined
                       /\ ~evaluateUserCampaign(
                              WrittenBack(hist.db, result, st, state, clock),
                              state.userId, state.campaignId))
                         => /\ sent' = sent
                            /\ Key(state) \in DOMAIN tick'[t].work.executions
                            /\ tick'[t].work.executions[Key(state)].status = "terminated"]_vars

\* the memberships of user u in d are what a re-evaluation gives: u is in a segment
\* exactly when its evaluator selects u, in every campaign u matches, and in a
\* dynamic campaign only when u matches it
Reevaluated(d, u) ==
    /\ \A s \in DOMAIN d.segments :
          <<u, s>> \in d.segmentUsers <=> u \in RunEvaluator(d, d.segments[s].evaluator)
    /\ \A c \in DOMAIN d.campaigns :
          /\ evaluateUserCampaign(d, u, c) => <<u, c>> \in d.campaignUsers
          /\ (d.campaigns[c].behavior = "dynamic" /\ <<u, c>> \in d.campaignUsers)
                => evaluateUserCampaign(d, u, c)

\* C33: a step that ran its flow compares the attributes the flow handed back with
\* those of the user row it read: when they differ, the transaction has the user row
\* with the flow's attributes and the user's segment and campaign memberships
\* re-evaluated for them; when they are equal, the step leaves the users table, the
\* segment memberships and the campaign memberships as they were
C33_WritebackOnlyWhenAttributesDiffer ==
    [][\A t \in TickIds : \A state \in tick[t].todo \ tick'[t].todo :
          \A st \in {setupExecutionState(db, state)} :
          \A hist \in {InsertHistory(tick[t].work, Key(state), st.stepIndex,
                                     st.attributes)} :
             (/\ tick'[t].pc = "open"
              /\ st.ok
              /\ hist.ok
              /\ ~(st.behavior = "dynamic" /\ st.stepIndex # 0
                   /\ ~evaluateUserCampaign(tick[t].work, state.userId,
                                            state.campaignId)))
                => \A result \in {executeGeneratorToIndex(st.flow, st.attributeStates,
                                                         st.stepIndex)} :
                      ~result.threw =>
                         IF result.attributes # st.attributes
                         THEN /\ tick'[t].work.users[state.userId].attributes
                                    = result.attributes
                              /\ Reevaluated(tick'[t].work, state.userId)
                         ELSE /\ tick'[t].work.users = tick[t].work.users
                              /\ tick'[t].work.segmentUsers = tick[t].work.segmentUsers
                              /\ tick'[t].work.campaignUsers
                                    = tick[t].work.campaignUsers]_vars

\* the second step of the opt-out flow has set active to false: the user has left
\* the segment, the static campaign keeps its member, and an earlier step of the
\* same flow had left the attributes alone
C33_Witness ==
    /\ NoOpenTick
    /\ "u1" \in DOMAIN db.users
    /\ db.users["u1"].attributes.active = FALSE
    /\ <<"u1", "active">> \notin db.segmentUsers
    /\ <<"u1", "c2">> \in db.campaignUsers
    /\ db.campaigns["c2"].flow = "optout"
    /\ {h.attributes.active : h \in HistoryOf(db, <<"u1", "c2">>)} = {TRUE}
    /\ Cardinality(HistoryOf(db, <<"u1", "c2">>)) = 2
    /\ requests = 2

\* C34: a POST /api/campaign/:id whose createCampaign throws (a segment id of its
\* lists is unknown) leaves no campaign row, no relation to a segment, no
\* CampaignMembership and no Execution of that campaign: the database is as it was
\* before the request
C34_CreateCampaignIsAtomic ==
    [][\A req \in CampaignRequests :
          (/\ requests' # requests
           /\ req.id \notin DOMAIN db.campaigns
           /\ ~createCampaign(db, req, clock).ok
           /\ db' = createCampaign(db, req, clock).db)
             => /\ req.id \notin DOMAIN db'.campaigns
                /\ IncludeOf(db', req.id) = {}
                /\ ExcludeOf(db', req.id) = {}
                /\ \A k \in db'.campaignUsers : k[2] # req.id
                /\ \A k \in DOMAIN db'.executions : k[2] # req.id
                /\ db' = db]_vars

\* C35: createSegment and updateSegment of an evaluator the trigger extraction
\* cannot parse succeed: the segment row has the evaluator, the segment has no
\* trigger row, and its members are the users the evaluator selects
C35_UnparsedEvaluatorIsStoredWithoutTriggers ==
    /\ \A s \in DOMAIN db.segments :
          \E r \in {updateSegment(db, s, SqlUnparsed, clock)} :
             /\ r.ok
             /\ r.db.segments[s].evaluator = SqlUnparsed
             /\ TriggersOf(r.db, s) = {}
             /\ {k[1] : k \in {x \in r.db.segmentUsers : x[2] = s}}
                   = RunEvaluator(r.db, SqlUnparsed)
    /\ \A s \in {"vip"} \ DOMAIN db.segments :
          \E r \in {createSegment(db, s, SqlUnparsed, clock)} :
             /\ r.ok
             /\ s \in DOMAIN r.db.segments
             /\ r.db.segments[s].evaluator = SqlUnparsed
             /\ TriggersOf(r.db, s) = {}
             /\ {k[1] : k \in {x \in r.db.segmentUsers : x[2] = s}}
                   = RunEvaluator(r.db, SqlUnparsed)

\* C36: an updateUser whose partial leaves the attributes of the user as they are
\* (the user was evaluated after the last change of its attributes and events)
\* re-evaluates to nothing: evaluateUserSegments and evaluateUserCampaigns report no
\* added and no removed id, and no SegmentMembership, CampaignMembership or
\* Execution row is inserted or deleted
C36_ReevaluationOfUnchangedUserIsNoOp ==
    [][\A u \in UserIds, p \in UserPatches :
          (/\ UpdateUser(u, p)
           /\ u \in DOMAIN db.users
           /\ ShallowMerge(db.users[u].attributes, p) = db.users[u].attributes)
             => /\ evaluateUserSegments(db, u).added = {}
                /\ evaluateUserSegments(db, u).removed = {}
                /\ evaluateUserCampaigns(db, u).added = {}
                /\ evaluateUserCampaigns(db, u).removed = {}
                /\ db'.segmentUsers = db.segmentUsers
                /\ db'.campaignUsers = db.campaignUsers
                /\ DOMAIN db'.executions = DOMAIN db.executions]_vars

\* the run of the flow that the tick makes for a claimed row
FlowRun(t, state) ==
    LET st == setupExecutionState(db, state)
    IN  executeGeneratorToIndex(st.flow, st.attributeStates, st.stepIndex)

\* C37: with a daemon that keeps ticking and a provider that takes every email, the
\* Execution of a static campaign whose flow ends after finitely many commands, by
\* falling off its end or by a return statement, is completed in the end: a pending
\* row leads to a completed one, the tick that finds the flow at its end completes
\* the row without an email, and no email of a completed row is handed to the
\* provider
C37_FiniteFlowCompletes ==
    /\ \A k \in Pairs :
          (k \in DOMAIN db.executions /\ db.executions[k].status = "pending")
             ~> (k \in DOMAIN db.executions /\ db.executions[k].status = "completed")
    /\ [][\A t \in TickIds : \A state \in tick[t].todo :
             (/\ TickStep(t, state, TRUE)
              /\ setupExecutionState(db, state).ok
              /\ FlowRun(t, state).done)
                => /\ tick'[t].work.executions[Key(state)].status = "completed"
                   /\ sent' = sent]_vars
    /\ [][\A k \in DOMAIN db.executions :
             db.executions[k].status = "completed"
                => SentFor(k, CampaignEmails(sent')) = SentFor(k, CampaignEmails(sent))]_vars

\* one generator object that is resumed once for every snapshot, ctx.attributes set
\* to the snapshot before each generator.next(): the results of the calls in order (a
\* generator that has returned or thrown answers {value: undefined, done: true})
RECURSIVE GeneratorCalls(_, _, _, _)
GeneratorCalls(prog, attributeStates, i, pc) ==
    IF i > Len(attributeStates) THEN <<>>
    ELSE <<GeneratorNext(prog, pc, vmRoundTrip(attributeStates[i]))>>
            \o GeneratorCalls(prog, attributeStates, i + 1,
                   GeneratorNext(prog, pc, vmRoundTrip(attributeStates[i])).pc)

\* the replay of a claimed row agrees with the generator resumed k + 1 times
ReplayAgrees(st, result, calls) ==
    /\ Len(st.attributeStates) = st.stepIndex + 1
    /\ Len(calls) = st.stepIndex + 1
    /\ result.threw = calls[st.stepIndex + 1].threw
    /\ ~result.threw => result.value = calls[st.stepIndex + 1].value

\* C38: for every Execution a tick can claim, with k its step index, the snapshots
\* of the replay are the history rows of steps 0..k-1 in order followed by the
\* user's attributes, the command the replay ends with is the one a single
\* generator resumed once per snapshot gives at its call number k, and the tick's
\* step hands to the provider no email but that of step k
C38_ReplayIsTheUninterruptedRun ==
    /\ [](\A state \in Claimable(db) :
            \A st \in {setupExecutionState(db, state)} :
               st.ok =>
                  /\ \A h \in HistoryOf(db, Key(state)) :
                        /\ h.stepIndex < st.stepIndex
                        /\ st.attributeStates[h.stepIndex + 1] = h.attributes
                  /\ st.attributeStates[st.stepIndex + 1]
                        = db.users[state.userId].attributes
                  /\ ReplayAgrees(st,
                        executeGeneratorToIndex(st.flow, st.attributeStates, st.stepIndex),
                        GeneratorCalls(Program(st.flow), st.attributeStates, 1, 1)))
    /\ [][\A t \in TickIds : \A state \in tick[t].todo : \A ok \in BOOLEAN :
             TickStep(t, state, ok)
                => /\ Len(sent') <= Len(sent) + 1
                   /\ \A i \in (Len(sent) + 1)..Len(sent') :
                         /\ sent'[i].userId = state.userId
                         /\ sent'[i].campaignId = state.campaignId
                         /\ sent'[i].stepIndex
                               = setupExecutionState(db, state).stepIndex]_vars

\* the rows the open transaction of tick t has claimed
ClaimedBy(t) == {Key(state) : state \in tick[t].states}

\* C39: no committed Execution row is running: a tick commits each row it has
\* claimed as sleeping, completed, failed or terminated, or the row is gone with
\* its membership, and when the tick's transaction is rolled back the claimed rows
\* are pending or sleeping as they were
C39_NoCommittedRowIsRunning ==
    /\ [](\A k \in DOMAIN db.executions : db.executions[k].status # "running")
    /\ [][\A t \in TickIds :
             TickCommit(t)
                => \A k \in ClaimedBy(t) :
                      \/ k \notin DOMAIN db'.executions
                      \/ db'.executions[k].status
                            \in {"sleeping", "completed", "failed", "terminated"}]_vars
    /\ [][\A t \in TickIds :
             TickAbort(t)
                => \A k \in ClaimedBy(t) :
                      /\ k \in DOMAIN db'.executions
                      /\ db'.executions[k] = db.executions[k]
                      /\ db'.executions[k].status \in {"pending", "sleeping"}]_vars

\* a tick has committed: one claimed row is failed, the other sleeping after its
\* first step
C39_Witness ==
    /\ NoOpenTick
    /\ <<"u1", "c1">> \in DOMAIN db.executions
    /\ <<"u1", "c2">> \in DOMAIN db.executions
    /\ db.executions[<<"u1", "c1">>].status = "failed"
    /\ db.executions[<<"u1", "c2">>].status = "sleeping"
    /\ HistoryOf(db, <<"u1", "c2">>) # {}

\* the delete operations of a category in a delta
Deletes(ops) == {ops[i].id : i \in {j \in DOMAIN ops : ops[j].type = "delete"}}

\* the delta of a push deletes a segment and a campaign of the database that
\* selects from it or excludes it
RemovesSegmentWithCampaign(d, delta) ==
    \E s \in Deletes(delta.segmentOperations) :
       \E c \in Deletes(delta.campaignOperations) :
          /\ c \in DOMAIN d.campaigns
          /\ s \in IncludeOf(d, c) \cup ExcludeOf(d, c)

\* C40: a push whose delta deletes a segment together with a campaign that
\* references it is answered with an error and leaves the database as it was, with
\* no Config row appended: the delete of the segment comes before that of the
\* campaign, and deleteSegment refuses the segment while the campaign is there
C40_RemovingSegmentWithItsCampaignIsRejected ==
    [][\A config \in RemovalConfigs \cup PushConfigs :
          \A delta \in {analyzeConfig(push'.lastConfig, config)} :
             (/\ PushConfig(config)
              /\ RemovesSegmentWithCampaign(db, delta))
                => /\ push'.result = "error"
                   /\ db' = db
                   /\ Len(db'.configs) = Len(db.configs)
                   /\ ~executeConfigDelta(db, delta, clock).ok]_vars

\* the push without campaign c1 and without segment active has been refused: both
\* are still there, and so is the one Config row of the push that created them
C40_Witness ==
    /\ push.result = "error"
    /\ push.config.campaigns = <<>>
    /\ push.config.segments = <<>>
    /\ push.lastConfig.campaigns # <<>>
    /\ push.lastConfig.segments # <<>>
    /\ "c1" \in DOMAIN db.campaigns
    /\ "active" \in DOMAIN db.segments
    /\ "active" \in IncludeOf(db, "c1")
    /\ Len(db.configs) = 1

====
